---- MODULE Spec2Model ----
(***************************************************************************)
(* State-machine model of the IRB profile importer                         *)
(* (src/irb_profile_importer.py): the URL security validator, the bounded  *)
(* redirect-following fetcher, and the import pipeline that drives them.   *)
(*                                                                         *)
(* URLs are records of the parts urlparse recovers; addresses are named by *)
(* their text and classified by the ipaddress flags the code reads; DNS    *)
(* answers, HTTP responses and transport failures are choices of the       *)
(* environment, made afresh at every resolution and every request.         *)
(***************************************************************************)
EXTENDS Integers, Sequences, FiniteSets, TLC

(***************************************************************************)
(* Program constants.                                                      *)
(***************************************************************************)
MAX_SOURCE_FETCH == 7
MAX_PDF_SOURCES_TO_PARSE == 2
MAX_SOURCE_RESPONSE_BYTES == 2500000
MAX_REDIRECTS == 4
ALLOWED_FETCH_SCHEMES == {"http", "https"}
ALLOWED_FETCH_PORTS == {80, 443}
BLOCKED_HOSTNAMES ==
  {"localhost", "localhost.localdomain", "0.0.0.0", "127.0.0.1", "::1",
   "metadata.google.internal"}
\* Mutant of REDIRECT_HTTP_CODES: 303 is not taken for a redirect.
RedirectCodesWithout303 == {301, 302, 307, 308}

REDIRECT_HTTP_CODES == {301, 302, 303, 307, 308}

(***************************************************************************)
(* Bounds of the model.                                                    *)
(***************************************************************************)
\* Longest DNS answer (number of addresses getaddrinfo returns).
MaxAddrs == 2

(***************************************************************************)
(* Addresses.  IpFlags gives the ipaddress properties of each address text *)
(* (CPython 3.11); an address text outside its domain does not parse.      *)
(***************************************************************************)
IpTexts ==
  {"93.184.216.34", "10.0.0.5", "127.0.0.2", "169.254.169.254", "224.0.0.1",
   "240.0.0.1", "::"}

IpFlags(a) ==
  CASE a = "93.184.216.34"   -> {}
    [] a = "10.0.0.5"        -> {"is_private"}
    [] a = "127.0.0.2"       -> {"is_private", "is_loopback"}
    [] a = "169.254.169.254" -> {"is_private", "is_link_local"}
    [] a = "224.0.0.1"       -> {"is_multicast"}
    [] a = "240.0.0.1"       -> {"is_private", "is_reserved"}
    [] a = "::"              -> {"is_private", "is_reserved", "is_unspecified"}
    [] OTHER                 -> {}

\* ipaddress.ip_address(text) succeeds.
IsIpText(a) == a \in IpTexts

IsBlockedIp(a) ==
  \/ "is_private" \in IpFlags(a)
  \/ "is_loopback" \in IpFlags(a)
  \/ "is_link_local" \in IpFlags(a)
  \/ "is_multicast" \in IpFlags(a)
  \/ "is_reserved" \in IpFlags(a)
  \/ "is_unspecified" \in IpFlags(a)

(***************************************************************************)
(* DNS answers: socket.gaierror, or a non-empty list of addresses, each a   *)
(* parsable text or not.                                                   *)
(***************************************************************************)
GaiError == [ok |-> FALSE, addrs |-> <<>>]

AddrLists == UNION {[1..n -> IpTexts \cup {"not-an-ip"}] : n \in 1..MaxAddrs}

DnsAnswers == {GaiError} \cup {[ok |-> TRUE, addrs |-> l] : l \in AddrLists}

\* The addresses name servers hand out while a call of _request_url runs.
WireAddrTexts == {"93.184.216.34", "10.0.0.5", "not-an-ip"}

WireDnsAnswers ==
  {GaiError} \cup
  {[ok |-> TRUE, addrs |-> l] : l \in UNION {[1..n -> WireAddrTexts] : n \in 1..MaxAddrs}}

(***************************************************************************)
(* URLs.  scheme "" is a string with no scheme ("example.edu/irb"), "//"   *)
(* a protocol-relative one; port NoPort is no explicit port, InvalidPort   *)
(* one for which parsed.port raises ValueError.                            *)
(***************************************************************************)
NoPort == -1
InvalidPort == -2

EmptyUrl ==
  [scheme |-> "", creds |-> FALSE, host |-> "", port |-> NoPort, path |-> <<>>]

Url(s, h, p) ==
  [scheme |-> s, creds |-> FALSE, host |-> h, port |-> NoPort, path |-> p]

\* Host texts whose bracket syntax makes urlparse raise ValueError.
MalformedHosts == {"[bad"}
\* Host names whose IDNA encoding fails inside getaddrinfo (UnicodeError).
IdnaErrorHosts == {"a..b.edu", "seventy-letter-label.edu"}

\* urlparse(url) raises: the netloc is parsed only behind "//".
UrlParseRaises(u) == u.scheme # "" /\ u.host \in MalformedHosts

\* parsed.hostname lower-cased, with trailing dots stripped.
HostCanon(h) ==
  CASE h = "localhost." -> "localhost"
    [] h = "example.edu." -> "example.edu"
    [] OTHER -> h

(***************************************************************************)
(* _normalize_url, urljoin and the validator.  Each returns a record whose *)
(* field raised names the exception that leaves the function ("" if none). *)
(***************************************************************************)
NormalizeUrl(u) ==
  IF u = EmptyUrl THEN [raised |-> "", url |-> EmptyUrl]
  ELSE IF UrlParseRaises(u) THEN [raised |-> "ValueError", url |-> EmptyUrl]
  ELSE IF u.scheme \notin {"", "//"} THEN [raised |-> "", url |-> u]
  ELSE [raised |-> "", url |-> [u EXCEPT !.scheme = "https"]]

\* urljoin(base, ref) for a Location value ref: an absolute URL, a
\* protocol-relative one ("//host/path") or an absolute path (scheme "").
UrlJoin(base, ref) ==
  IF ref.scheme # "" /\ ref.host \in MalformedHosts
    THEN [raised |-> "ValueError", url |-> EmptyUrl]
  ELSE IF ref.scheme = "" THEN [raised |-> "", url |-> [base EXCEPT !.path = ref.path]]
  ELSE IF ref.scheme = "//" THEN [raised |-> "", url |-> [ref EXCEPT !.scheme = base.scheme]]
  ELSE [raised |-> "", url |-> ref]

\* Index of the first address of the list the code finds blocked, 0 if none
\* (addresses that do not parse are skipped).
RECURSIVE FirstBlocked(_, _)
FirstBlocked(addrs, i) ==
  IF i > Len(addrs) THEN 0
  ELSE IF IsIpText(addrs[i]) /\ IsBlockedIp(addrs[i]) THEN i
  ELSE FirstBlocked(addrs, i + 1)

\* Mutant of _host_resolves_to_blocked_ip: only the first address returned
\* by getaddrinfo is classified.
HostResolvesToBlockedIpFirstOnly(host, dns) ==
  IF IsIpText(host)
    THEN [raised |-> "", blocked |-> IsBlockedIp(host), ip |-> IF IsBlockedIp(host) THEN host ELSE ""]
  ELSE IF host \in IdnaErrorHosts
    THEN [raised |-> "UnicodeError", blocked |-> FALSE, ip |-> ""]
  ELSE IF ~dns.ok THEN [raised |-> "", blocked |-> FALSE, ip |-> ""]
  ELSE IF IsIpText(dns.addrs[1]) /\ IsBlockedIp(dns.addrs[1])
    THEN [raised |-> "", blocked |-> TRUE, ip |-> dns.addrs[1]]
  ELSE [raised |-> "", blocked |-> FALSE, ip |-> ""]

\* dns is what getaddrinfo answers for host at this call.
HostResolvesToBlockedIp(host, dns) ==
  IF IsIpText(host)
    THEN [raised |-> "", blocked |-> IsBlockedIp(host), ip |-> IF IsBlockedIp(host) THEN host ELSE ""]
  ELSE IF host \in IdnaErrorHosts
    THEN [raised |-> "UnicodeError", blocked |-> FALSE, ip |-> ""]
  ELSE IF ~dns.ok THEN [raised |-> "", blocked |-> FALSE, ip |-> ""]
  ELSE LET i == FirstBlocked(dns.addrs, 1) IN
       IF i > 0 THEN [raised |-> "", blocked |-> TRUE, ip |-> dns.addrs[i]]
       ELSE [raised |-> "", blocked |-> FALSE, ip |-> ""]

Verdict(v, why) == [raised |-> "", valid |-> v, reason |-> why]

ValidateFetchUrl(u, dns) ==
  IF UrlParseRaises(u) THEN [raised |-> "ValueError", valid |-> FALSE, reason |-> ""]
  ELSE IF u.scheme \notin ALLOWED_FETCH_SCHEMES
    THEN Verdict(FALSE, "Only http/https URLs are allowed.")
  ELSE IF u.creds
    THEN Verdict(FALSE, "URLs containing embedded credentials are blocked.")
  ELSE LET host == HostCanon(u.host) IN
    IF host = "" THEN Verdict(FALSE, "URL host is missing.")
    ELSE IF host \in BLOCKED_HOSTNAMES THEN Verdict(FALSE, "Blocked host.")
    ELSE IF u.port = InvalidPort THEN Verdict(FALSE, "Invalid URL port.")
    ELSE IF u.port # NoPort /\ u.port # 0 /\ u.port \notin ALLOWED_FETCH_PORTS
      THEN Verdict(FALSE, "Blocked non-standard port.")
    ELSE LET r == HostResolvesToBlockedIp(host, dns) IN
      IF r.raised # "" THEN [raised |-> r.raised, valid |-> FALSE, reason |-> ""]
      ELSE IF r.blocked THEN Verdict(FALSE, "Resolved to private/local IP.")
      ELSE Verdict(TRUE, "")

(***************************************************************************)
(* HTTP responses and transport outcomes, as _NO_REDIRECT_OPENER.open      *)
(* delivers them: a 2xx response object (kind "ok"), an HTTPError for      *)
(* every other status (kind "http_error", redirects included, since        *)
(* _NoRedirectHandler declines to follow), a URLError, or another          *)
(* exception (timeout, invalid URL).                                       *)
(***************************************************************************)
\* Content-Length header absent / present but not a number.
NoLength == -1
BadLength == -2

Resp(k, st, ct, cl, b, d, l) ==
  [kind |-> k, status |-> st, ctype |-> ct, clen |-> cl, body |-> b, doc |-> d,
   loc |-> l]

NoResp == Resp("none", 0, "", NoLength, 0, "", EmptyUrl)
UrlErrorResp == Resp("url_error", 0, "", NoLength, 0, "", EmptyUrl)

\* Location header values a server may send (EmptyUrl: none, or blank).
Locations ==
  {EmptyUrl,
   Url("https", "example.edu", <<"irb">>),
   Url("", "", <<"hrpp">>),
   Url("//", "cdn.example.edu", <<"irb">>),
   Url("http", "127.0.0.2", <<>>),
   Url("https", "[bad", <<>>),
   Url("ftp", "example.edu", <<>>)}

OkResponses ==
  {Resp("ok", 200, "text/html", cl, b, "page", EmptyUrl) :
     cl \in {NoLength, BadLength, 10, MAX_SOURCE_RESPONSE_BYTES,
             MAX_SOURCE_RESPONSE_BYTES + 1},
     b \in {0, 10, MAX_SOURCE_RESPONSE_BYTES, MAX_SOURCE_RESPONSE_BYTES + 1}}
  \cup
  {Resp("ok", 200, "application/pdf", NoLength, b, "pdf", EmptyUrl) : b \in {0, 10}}

\* HTTPError: a redirect status without a Location header, a redirect with
\* one, and statuses that are no redirect.
ErrorResponses ==
  {Resp("http_error", st, "text/html", NoLength, 0, "", EmptyUrl) :
     st \in {301, 302, 303, 307, 308}}
  \cup
  {Resp("http_error", st, "text/html", cl, 0, "", l) :
     st \in {302, 308},
     cl \in {NoLength, MAX_SOURCE_RESPONSE_BYTES + 1},
     l \in Locations}
  \cup
  {Resp("http_error", st, "text/html", NoLength, 0, "", EmptyUrl) : st \in {304, 404}}

Responses == OkResponses \cup ErrorResponses \cup {UrlErrorResp, Resp("exception", 0, "", NoLength, 0, "", EmptyUrl)}

Min(a, b) == IF a < b THEN a ELSE b
Max(a, b) == IF a > b THEN a ELSE b

\* Bytes resp.read(amt) returns: the transport never hands out more than a
\* numeric Content-Length declares.
Delivered(resp, amt) ==
  Min(amt, IF resp.clen >= 0 THEN Min(resp.body, resp.clen) ELSE resp.body)

NoPayload == [size |-> 0, doc |-> ""]

\* Mutant of _read_response_payload: resp.read() with no amount, and no check
\* of what it returned.
ReadResponsePayloadUnbounded(resp) ==
  IF resp.clen > MAX_SOURCE_RESPONSE_BYTES
    THEN [raised |-> "Response too large", reads |-> 0, payload |-> NoPayload]
  ELSE LET got == Delivered(resp, resp.body) IN
    [raised |-> "", reads |-> 1,
     payload |-> IF got = 0 THEN NoPayload ELSE [size |-> got, doc |-> resp.doc]]

\* Mutant of _read_response_payload: the declared length is not checked.
ReadResponsePayloadNoDeclared(resp) ==
  LET got == Delivered(resp, MAX_SOURCE_RESPONSE_BYTES + 1) IN
  IF got > MAX_SOURCE_RESPONSE_BYTES
    THEN [raised |-> "Response exceeded max size", reads |-> 1, payload |-> NoPayload]
  ELSE [raised |-> "", reads |-> 1,
        payload |-> IF got = 0 THEN NoPayload ELSE [size |-> got, doc |-> resp.doc]]

\* raised: the message of the ValueError raised ("" if none); reads: the
\* number of resp.read calls made.
ReadResponsePayload(resp) ==
  IF resp.clen > MAX_SOURCE_RESPONSE_BYTES
    THEN [raised |-> "Response too large", reads |-> 0, payload |-> NoPayload]
  ELSE LET got == Delivered(resp, MAX_SOURCE_RESPONSE_BYTES + 1) IN
    IF got > MAX_SOURCE_RESPONSE_BYTES
      THEN [raised |-> "Response exceeded max size", reads |-> 1, payload |-> NoPayload]
    ELSE [raised |-> "", reads |-> 1,
          payload |-> IF got = 0 THEN NoPayload ELSE [size |-> got, doc |-> resp.doc]]

(***************************************************************************)
(* State.                                                                  *)
(*                                                                         *)
(* One call of _request_url:                                               *)
(*   fpc        position in the call: "idle" (no call), "enter", "loop"    *)
(*              (at the while test), "send" (validated, about to open),    *)
(*              "ret" (returned fret), "raised" (left by exception fraised)*)
(*   live       whether any server answers during this call                *)
(*   target, redirects   the locals of the same names                      *)
(*   fret       the tuple returned; fraised the exception that escaped     *)
(*   nreq       requests handed to the opener in this call                 *)
(*   reads      resp.read calls made in this call                          *)
(*   oversize   whether a response of this call declared a Content-Length  *)
(*              above MAX_SOURCE_RESPONSE_BYTES                            *)
(* and, for the loop iteration the call is in (each reset when line 373    *)
(* moves on to the next hop):                                              *)
(*   accepted   the URL _validate_fetch_url accepted (EmptyUrl: none)      *)
(*   wire       the URL of the request handed to the opener (EmptyUrl:     *)
(*              none)                                                      *)
(*   connected  the address the transport connected to ("": none)          *)
(*   resp       the response or transport outcome received                 *)
(***************************************************************************)
VARIABLES fpc, live, target, redirects, fret, fraised, accepted, wire, nreq,
          connected, reads, oversize, resp

fvars ==
  <<fpc, live, target, redirects, fret, fraised, accepted, wire, nreq,
    connected, reads, oversize, resp>>

(***************************************************************************)
(* One call of import_irb_profile:                                         *)
(*   ipc        position: "idle" (no import), "enter", "search" (in        *)
(*              _run_search_queries), "fetch" (the loop of line 699),      *)
(*              "pdf" (the loop of line 720), "returned", "raised"         *)
(*   inp        the arguments                                              *)
(*   cands      sources while _build_candidate_urls runs, then             *)
(*              candidate_sources                                          *)
(*   results    the local of _run_search_queries                           *)
(*   fetched    fetched_sources                                            *)
(*   idx        index of the loop the call is in                           *)
(*   doclinks   dedup_doc_links                                            *)
(*   attempts   pdf_parse_attempts                                         *)
(*   result     the dict returned; iraised the exception that escaped      *)
(*   reachLeft  how many more calls of _request_url may find servers       *)
(*   requests   requests handed to the opener by the calls of _request_url *)
(*              that have ended                                            *)
(*              answering                                                  *)
(***************************************************************************)
VARIABLES ipc, inp, cands, results, fetched, idx, doclinks, attempts, result,
          iraised, reachLeft, requests

ivars ==
  <<ipc, inp, cands, results, fetched, idx, doclinks, attempts, result,
    iraised, reachLeft, requests>>

(***************************************************************************)
(* Argument and result of a pure function applied on its own.              *)
(***************************************************************************)
VARIABLES pin, pout

pvars == <<pin, pout>>

(***************************************************************************)
(* The HTTP server (src/server.py) handling POST /api/import-profile, one  *)
(* thread per request:                                                     *)
(*   IRB_PROFILES  the ids the registry of src/irb_profiles.py holds       *)
(*   hpc        position of each request's handler: "idle" (no request),   *)
(*              "start", "import" (profile id chosen, import running),     *)
(*              "upsert" (import returned), "done", "error"                *)
(*   horg       organizationName of each request                           *)
(*   hid        profile_id each handler has chosen (NoId: none yet)        *)
(*   stored     which request stored a profile under which id              *)
(*   hseen      the Origin header and the API key each handler has read    *)
(*              from its request ("unread": not yet)                       *)
(*   passed     the checks of do_POST each request has passed, in order    *)
(*   apikey     BACKEND_API_KEY of the environment ("": no key configured) *)
(*   events     the bucket RATE_LIMITER keeps for the client's key: the    *)
(*              timestamps of the calls it accepted and has not pruned     *)
(*   clock      time.monotonic()                                           *)
(*   tnow       the value of now each call of check has read               *)
(*   retry      the Retry-After of each request answered 429 (0: none)     *)
(*   accepts    the timestamps of all calls of check accepted so far       *)
(***************************************************************************)
VARIABLES IRB_PROFILES, hpc, horg, hid, stored, hseen, passed, apikey,
          events, clock, tnow, retry, accepts

svars == <<IRB_PROFILES, hpc, horg, hid, stored, hseen, passed, apikey,
           events, clock, tnow, retry, accepts>>

vars == <<fvars, ivars, pvars, svars>>

Tuple(st, ct, pl, err) == [status |-> st, ctype |-> ct, payload |-> pl, error |-> err]
NoRet == Tuple(0, "", NoPayload, "")

\* The state in which _request_url(u) is about to run.
CallRequestUrl(u, lv) ==
  /\ fpc' = "enter"
  /\ live' = lv
  /\ target' = u
  /\ redirects' = 0
  /\ fret' = NoRet
  /\ fraised' = ""
  /\ accepted' = EmptyUrl
  /\ wire' = EmptyUrl
  /\ nreq' = 0
  /\ connected' = ""
  /\ reads' = 0
  /\ oversize' = FALSE
  /\ resp' = NoResp

Return(t) ==
  /\ fpc' = "ret"
  /\ fret' = t
  /\ UNCHANGED fraised

Raise(exc) ==
  /\ fpc' = "raised"
  /\ fraised' = exc
  /\ UNCHANGED fret

\* lines 347-351
RequestUrlEnter ==
  /\ fpc = "enter"
  /\ LET n == NormalizeUrl(target) IN
       IF n.raised # "" THEN Raise(n.raised) /\ UNCHANGED <<target, redirects>>
       ELSE IF n.url = EmptyUrl
         THEN Return(Tuple(0, "", NoPayload, "Empty URL.")) /\ UNCHANGED <<target, redirects>>
       ELSE /\ target' = n.url
            /\ redirects' = 0
            /\ fpc' = "loop"
            /\ UNCHANGED <<fret, fraised>>
  /\ UNCHANGED <<live, accepted, wire, nreq, connected, reads, oversize, resp>>
  /\ UNCHANGED <<ivars, pvars, svars>>

\* Mutant of the while test: one hop too many.
LoopGuardOffByOne(r) == r <= MAX_REDIRECTS + 1

\* line 352
LoopGuard(r) == r <= MAX_REDIRECTS

\* line 380
TooManyRedirects ==
  /\ fpc = "loop"
  /\ ~LoopGuard(redirects)
  /\ Return(Tuple(0, "", NoPayload, "Too many redirects"))
  /\ UNCHANGED <<live, target, redirects, accepted, wire, nreq, connected, reads, oversize, resp>>
  /\ UNCHANGED <<ivars, pvars, svars>>

\* Mutant: only the URL the caller passed is validated, not redirect hops.
MustValidateFirstHopOnly(r) == r = 0

\* line 353 runs in every iteration
MustValidate(r) == TRUE

\* What getaddrinfo may answer inside the validator.
ValidatorDns == IF live THEN WireDnsAnswers ELSE {GaiError}

\* lines 353-355
Validate ==
  /\ fpc = "loop"
  /\ LoopGuard(redirects)
  /\ IF ~MustValidate(redirects)
       THEN fpc' = "send" /\ accepted' = EmptyUrl /\ UNCHANGED <<fret, fraised>>
       ELSE \E dns \in ValidatorDns :
              LET v == ValidateFetchUrl(target, dns) IN
                IF v.raised # "" THEN Raise(v.raised) /\ accepted' = EmptyUrl
                ELSE IF ~v.valid
                  THEN /\ Return(Tuple(0, "", NoPayload, "Blocked URL for security reasons"))
                       /\ accepted' = EmptyUrl
                ELSE /\ fpc' = "send"
                     /\ accepted' = target
                     /\ UNCHANGED <<fret, fraised>>
  /\ UNCHANGED <<live, target, redirects, wire, connected, resp, nreq, reads, oversize>>
  /\ UNCHANGED <<ivars, pvars, svars>>

\* Addresses the transport may connect to for a host: the literal itself,
\* or whatever its own getaddrinfo call returns at that moment.
ConnectAddrs(host) == IF IsIpText(host) THEN {host} ELSE WireAddrTexts \cap IpTexts

\* Outcomes of opener.open(req): no connection (URLError: DNS failure,
\* refused), or, servers answering, a connection to addr and a response on
\* it, or a failure that is no URLError (a socket timeout mid-transfer).
TransportEvents ==
  {[addr |-> "", resp |-> UrlErrorResp]}
  \cup (IF live
          THEN {[addr |-> a, resp |-> r] :
                  a \in ConnectAddrs(HostCanon(target.host)),
                  r \in Responses \ {UrlErrorResp}}
          ELSE {})

\* What the iteration leaves behind when it ends the call.
EndIteration(ev) ==
  /\ wire' = target
  /\ connected' = ev.addr
  /\ resp' = ev.resp
  /\ UNCHANGED <<target, redirects, accepted>>

\* lines 357-378: one request and the handling of its outcome
SendRequest ==
  /\ fpc = "send"
  /\ \E ev \in TransportEvents :
       /\ nreq' = nreq + 1
       /\ oversize' = (oversize \/ ev.resp.clen > MAX_SOURCE_RESPONSE_BYTES)
       /\ CASE ev.resp.kind = "ok" ->
                 LET rd == ReadResponsePayload(ev.resp) IN
                   /\ reads' = reads + rd.reads
                   /\ IF rd.raised # ""
                        THEN Return(Tuple(0, "", NoPayload, rd.raised))
                        ELSE Return(Tuple(ev.resp.status, ev.resp.ctype, rd.payload, ""))
                   /\ EndIteration(ev)
            [] ev.resp.kind = "http_error" ->
                 /\ reads' = reads
                 /\ IF ev.resp.status \in REDIRECT_HTTP_CODES
                      THEN IF ev.resp.loc = EmptyUrl
                             THEN /\ Return(Tuple(ev.resp.status, ev.resp.ctype, NoPayload,
                                                  "Redirect without Location header"))
                                  /\ EndIteration(ev)
                           ELSE LET j == UrlJoin(target, ev.resp.loc)
                                    n == NormalizeUrl(j.url)
                                IN IF j.raised # ""
                                     THEN Raise(j.raised) /\ EndIteration(ev)
                                   ELSE IF n.raised # ""
                                     THEN Raise(n.raised) /\ EndIteration(ev)
                                   ELSE /\ target' = n.url
                                        /\ redirects' = redirects + 1
                                        /\ fpc' = "loop"
                                        /\ accepted' = EmptyUrl
                                        /\ wire' = EmptyUrl
                                        /\ connected' = ""
                                        /\ resp' = NoResp
                                        /\ UNCHANGED <<fret, fraised>>
                      ELSE /\ Return(Tuple(ev.resp.status, ev.resp.ctype, NoPayload, "HTTP"))
                           /\ EndIteration(ev)
            [] ev.resp.kind = "url_error" ->
                 /\ reads' = reads
                 /\ Return(Tuple(0, "", NoPayload, "Network error"))
                 /\ EndIteration(ev)
            [] OTHER ->
                 /\ reads' = reads
                 /\ Return(Tuple(0, "", NoPayload, "timed out"))
                 /\ EndIteration(ev)
  /\ UNCHANGED <<live, ivars, pvars, svars>>

\* The caller has taken the outcome of the call: no call is running.
FetchReset ==
  /\ fpc' = "idle"
  /\ live' = FALSE
  /\ target' = EmptyUrl
  /\ redirects' = 0
  /\ fret' = NoRet
  /\ fraised' = ""
  /\ accepted' = EmptyUrl
  /\ wire' = EmptyUrl
  /\ nreq' = 0
  /\ connected' = ""
  /\ reads' = 0
  /\ oversize' = FALSE
  /\ resp' = NoResp

FetchIdle ==
  /\ fpc = "idle"
  /\ live = FALSE
  /\ target = EmptyUrl
  /\ redirects = 0
  /\ fret = NoRet
  /\ fraised = ""
  /\ accepted = EmptyUrl
  /\ wire = EmptyUrl
  /\ nreq = 0
  /\ connected = ""
  /\ reads = 0
  /\ oversize = FALSE
  /\ resp = NoResp

ImportIdle ==
  /\ ipc = "idle"
  /\ inp = [org |-> "", website |-> EmptyUrl, irb |-> EmptyUrl, text |-> ""]
  /\ cands = <<>>
  /\ results = <<>>
  /\ fetched = <<>>
  /\ idx = 0
  /\ doclinks = <<>>
  /\ attempts = 0
  /\ result = [returned |-> FALSE]
  /\ iraised = ""
  /\ reachLeft = 0
  /\ requests = 0

PureIdle == pin = <<>> /\ pout = <<>>

\* Requests the server handles at the same time.
MaxRequests == 2

Requests == 1..MaxRequests

NoId == [slug |-> "", n |-> 0]

ServerIdle ==
  /\ IRB_PROFILES = {}
  /\ hpc = [r \in Requests |-> "idle"]
  /\ horg = [r \in Requests |-> ""]
  /\ hid = [r \in Requests |-> NoId]
  /\ stored = {}
  /\ hseen = [r \in Requests |-> [origin |-> "unread", key |-> "unread"]]
  /\ passed = [r \in Requests |-> <<>>]
  /\ apikey = ""
  /\ events = <<>>
  /\ clock = 0
  /\ tnow = [r \in Requests |-> 0]
  /\ retry = [r \in Requests |-> 0]
  /\ accepts = <<>>

(***************************************************************************)
(* The rule table and the confidence score.  Weights and scores are in     *)
(* hundredths (0.12 is 12): every quantity the code adds is a multiple of  *)
(* 0.01 and the result is rounded to two decimals.                         *)
(***************************************************************************)
RuleIds ==
  <<"review_categories", "training", "consent_template", "recruitment_materials",
    "survey_instrument", "privacy_data_security", "education_records",
    "minors_assent", "hipaa_health_data">>

RuleSet == {RuleIds[i] : i \in DOMAIN RuleIds}

Weight(rule) ==
  CASE rule = "review_categories" -> 12
    [] rule = "training" -> 11
    [] rule = "consent_template" -> 10
    [] rule = "recruitment_materials" -> 8
    [] rule = "survey_instrument" -> 9
    [] rule = "privacy_data_security" -> 10
    [] rule = "education_records" -> 8
    [] rule = "minors_assent" -> 8
    [] rule = "hipaa_health_data" -> 5

RECURSIVE SumWeights(_)
SumWeights(S) ==
  IF S = {} THEN 0
  ELSE LET r == CHOOSE x \in S : TRUE IN Weight(r) + SumWeights(S \ {r})

\* Mutant of the confidence computation: the weight bonus is subtracted.
ConfidenceBonusSubtracted(fetched_count, failed_count, fired) ==
  Max(8, Min(93,
    22 + (IF fetched_count > 0 THEN 24 ELSE 0)
       - (IF fired # {} THEN Min(42, SumWeights(fired)) ELSE 0)
       - (IF failed_count > fetched_count THEN 8 ELSE 0)
       - (IF fired = {} THEN 5 ELSE 0)))

\* Mutant of the confidence computation: the cap on the weight bonus and
\* the final clamp are missing.
ConfidenceUnclamped(fetched_count, failed_count, fired) ==
  22 + (IF fetched_count > 0 THEN 24 ELSE 0)
     + (IF fired # {} THEN SumWeights(fired) ELSE 0)
     - (IF failed_count > fetched_count THEN 8 ELSE 0)
     - (IF fired = {} THEN 5 ELSE 0)

\* Mutant of the confidence computation: the failed-fetch penalty is not
\* applied.
ConfidenceNoFailedPenalty(fetched_count, failed_count, fired) ==
  Max(8, Min(93,
    22 + (IF fetched_count > 0 THEN 24 ELSE 0)
       + (IF fired # {} THEN Min(42, SumWeights(fired)) ELSE 0)
       - (IF fired = {} THEN 5 ELSE 0)))

\* lines 775-787 and 812; fired is the set of rules with a positive
\* aggregated hit count (signal_summaries lists exactly these).
Confidence(fetched_count, failed_count, fired) ==
  Max(8, Min(93,
    22 + (IF fetched_count > 0 THEN 24 ELSE 0)
       + (IF fired # {} THEN Min(42, SumWeights(fired)) ELSE 0)
       - (IF failed_count > fetched_count THEN 8 ELSE 0)
       - (IF fired = {} THEN 5 ELSE 0)))

\* Mutant of lines 792-793: the failed warning needs more failed sources
\* than fetched ones, as the confidence penalty of line 783 does.
WarningsFailedMajority(fetched_count, failed_count, fired, links) ==
  (IF fetched_count = 0 THEN <<"No source pages were successfully fetched.">> ELSE <<>>)
  \o (IF failed_count > fetched_count
        THEN <<ToString(failed_count) \o " source requests failed">> ELSE <<>>)
  \o (IF fired = {} THEN <<"No strong requirement signals detected">> ELSE <<>>)
  \o (IF links # <<>> THEN <<"Document links were detected">> ELSE <<>>)
  \o <<"Imported profile is a best-effort draft">>

\* lines 789-802
Warnings(fetched_count, failed_count, fired, links) ==
  (IF fetched_count = 0 THEN <<"No source pages were successfully fetched.">> ELSE <<>>)
  \o (IF failed_count > 0
        THEN <<ToString(failed_count) \o " source requests failed">> ELSE <<>>)
  \o (IF fired = {} THEN <<"No strong requirement signals detected">> ELSE <<>>)
  \o (IF links # <<>> THEN <<"Document links were detected">> ELSE <<>>)
  \o <<"Imported profile is a best-effort draft">>

(***************************************************************************)
(* Texts and documents.  A text is named; TextHits gives what _rule_hits   *)
(* counts in it.  "policy" is "The Institutional Review Board reviews      *)
(* exempt, expedited, and full board studies. Researchers must complete    *)
(* CITI training and submit consent forms.", "page text" is "Informed      *)
(* consent is required. HIPAA rules apply to recruitment.", "pdf text" is  *)
(* "Questionnaire".                                                        *)
(***************************************************************************)
NoHits == [r \in RuleSet |-> 0]

TextHits(text) ==
  CASE text = "policy" ->
         [NoHits EXCEPT !["review_categories"] = 3, !["training"] = 1,
                        !["consent_template"] = 1]
    [] text = "page text" ->
         [NoHits EXCEPT !["consent_template"] = 2, !["recruitment_materials"] = 1,
                        !["hipaa_health_data"] = 1]
    [] text = "pdf text" -> [NoHits EXCEPT !["survey_instrument"] = 1]
    [] OTHER -> NoHits

\* lines 734-735
RuleHits(text) == IF text # "" THEN TextHits(text) ELSE NoHits

\* What the HTML parser recovers from a document: its text and its hrefs,
\* already resolved against base by _resolve_links.
DocText(doc) == IF doc = "page" THEN "page text" ELSE ""

\* "index" is a page that links twenty checklists and then a PDF form.
ResolveLinks(base, doc) ==
  CASE doc = "page" ->
         <<[base EXCEPT !.path = <<"forms", "form.pdf">>],
           [base EXCEPT !.path = <<"consent">>],
           [base EXCEPT !.path = <<"about">>]>>
    [] doc = "index" ->
         [i \in 1..20 |-> [base EXCEPT !.path = <<"checklist", ToString(i)>>]]
         \o <<[base EXCEPT !.path = <<"forms", "form.pdf">>]>>
    [] OTHER -> <<>>

Last(seq) == seq[Len(seq)]

\* link.lower().endswith(".pdf")
IsPdfUrl(u) == u.path # <<>> /\ Last(u.path) \in {"form.pdf"}

\* line 506 and line 509
IsDocLink(u) ==
  \/ (u.path # <<>> /\ Last(u.path) \in {"form.pdf", "application.docx"})
  \/ \E i \in DOMAIN u.path : u.path[i] \in {"consent", "template", "checklist"}

RECURSIVE DedupFrom(_, _, _)
DedupFrom(seq, i, out) ==
  IF i > Len(seq) THEN out
  ELSE IF \E j \in DOMAIN out : out[j] = seq[i] THEN DedupFrom(seq, i + 1, out)
  ELSE DedupFrom(seq, i + 1, Append(out, seq[i]))

\* first occurrences, in order
Dedup(seq) == DedupFrom(seq, 1, <<>>)

Prefix(seq, n) == SubSeq(seq, 1, Min(n, Len(seq)))

\* lines 502-518
ExtractDocLinks(links) == Prefix(Dedup(SelectSeq(links, IsDocLink)), 18)

(***************************************************************************)
(* SourceDoc and _fetch_source.                                            *)
(***************************************************************************)
SourceDoc(u, st) ==
  [url |-> u, source_type |-> st, status |-> "unfetched", http_status |-> 0,
   content_type |-> "", text |-> "", links |-> <<>>, error |-> ""]

\* Mutant of _fetch_source: an error tuple records the error and leaves the
\* status as it was.
FetchSourceErrorKeepsStatus(source, t, pdf_ok) ==
  LET s == [source EXCEPT !.http_status = t.status, !.content_type = t.ctype] IN
  IF t.error # "" THEN [s EXCEPT !.error = t.error]
  ELSE IF t.payload = NoPayload
    THEN [s EXCEPT !.status = "failed", !.error = "Empty response."]
  ELSE IF t.ctype = "application/pdf" \/ IsPdfUrl(source.url)
    THEN [s EXCEPT !.text = IF pdf_ok THEN "pdf text" ELSE "",
                   !.links = <<>>,
                   !.status = "fetched",
                   !.error = IF pdf_ok THEN "" ELSE "PDF text extraction unavailable"]
  ELSE [s EXCEPT !.text = DocText(t.payload.doc),
                 !.links = ResolveLinks(source.url, t.payload.doc),
                 !.status = "fetched"]

\* Mutant of _fetch_source: an empty payload fails the source without
\* recording an error.
FetchSourceEmptyNoError(source, t, pdf_ok) ==
  LET s == [source EXCEPT !.http_status = t.status, !.content_type = t.ctype] IN
  IF t.error # "" THEN [s EXCEPT !.status = "failed", !.error = t.error]
  ELSE IF t.payload = NoPayload
    THEN [s EXCEPT !.status = "failed"]
  ELSE IF t.ctype = "application/pdf" \/ IsPdfUrl(source.url)
    THEN [s EXCEPT !.text = IF pdf_ok THEN "pdf text" ELSE "",
                   !.links = <<>>,
                   !.status = "fetched",
                   !.error = IF pdf_ok THEN "" ELSE "PDF text extraction unavailable"]
  ELSE [s EXCEPT !.text = DocText(t.payload.doc),
                 !.links = ResolveLinks(source.url, t.payload.doc),
                 !.status = "fetched"]

\* lines 557-593, given the tuple t that _request_url returned; pdf_ok is
\* whether pypdf could read the payload.
FetchSource(source, t, pdf_ok) ==
  LET s == [source EXCEPT !.http_status = t.status, !.content_type = t.ctype] IN
  IF t.error # "" THEN [s EXCEPT !.status = "failed", !.error = t.error]
  ELSE IF t.payload = NoPayload
    THEN [s EXCEPT !.status = "failed", !.error = "Empty response."]
  ELSE IF t.ctype = "application/pdf" \/ IsPdfUrl(source.url)
    THEN [s EXCEPT !.text = IF pdf_ok THEN "pdf text" ELSE "",
                   !.links = <<>>,
                   !.status = "fetched",
                   !.error = IF pdf_ok THEN "" ELSE "PDF text extraction unavailable"]
  ELSE [s EXCEPT !.text = DocText(t.payload.doc),
                 !.links = ResolveLinks(source.url, t.payload.doc),
                 !.status = "fetched"]

\* Outcomes of _extract_pdf_text on a payload.
PdfOutcomes(t) == IF t.payload.doc = "pdf" THEN {TRUE, FALSE} ELSE {FALSE}

(***************************************************************************)
(* _build_candidate_urls.                                                  *)
(***************************************************************************)
LIKELY_IRB_PATHS ==
  <<<<"irb">>, <<"research", "irb">>, <<"research-compliance", "irb">>,
    <<"research-compliance", "human-subjects">>, <<"human-subjects">>, <<"hrpp">>,
    <<"research", "human-subjects">>>>

\* _str(org_name) of an organization name ("  ": blank)
StrOrg(org) == IF org = "  " THEN "" ELSE org

\* _slugify(org_name).replace("-", ""), followed by ".edu" ("" when the
\* slug is empty).  A label of 70 letters cannot be IDNA-encoded.
GuessedHost(org) ==
  CASE org = "Example University" -> "exampleuniversity.edu"
    [] org = "seventy letters" -> "seventy-letter-label.edu"
    [] OTHER -> ""

\* urljoin(base.rstrip("/") + "/", path.lstrip("/")): parses base again
JoinPath(base, path) ==
  IF UrlParseRaises(base) THEN [raised |-> "ValueError", url |-> EmptyUrl]
  ELSE [raised |-> "", url |-> [base EXCEPT !.path = base.path \o path]]

\* Mutant of line 473: the search is made whenever no website was given.
SourcesBeforeSearchIgnoresIrbPage(org_name, organization_website, irb_page_url) ==
  LET irb == NormalizeUrl(irb_page_url)
      base == NormalizeUrl(organization_website)
      host == GuessedHost(org_name)
      fromIrb == IF irb.url # EmptyUrl THEN <<SourceDoc(irb.url, "web")>> ELSE <<>>
      fromBase ==
        IF base.url # EmptyUrl
          THEN <<SourceDoc(base.url, "web")>> \o
               [i \in 1..Len(LIKELY_IRB_PATHS) |->
                  SourceDoc(JoinPath(base.url, LIKELY_IRB_PATHS[i]).url, "guessed")]
        ELSE <<>>
      fromGuess ==
        IF base.url = EmptyUrl /\ org_name # "" /\ host # ""
          THEN <<SourceDoc(Url("https", host, <<>>), "guessed")>> \o
               [i \in 1..3 |-> SourceDoc(Url("https", host, LIKELY_IRB_PATHS[i]), "guessed")]
        ELSE <<>>
  IN IF irb.raised # "" THEN [raised |-> irb.raised, sources |-> <<>>, search |-> FALSE]
     ELSE IF base.raised # "" THEN [raised |-> base.raised, sources |-> <<>>, search |-> FALSE]
     ELSE IF base.url # EmptyUrl /\ UrlParseRaises(base.url)
       THEN [raised |-> "ValueError", sources |-> <<>>, search |-> FALSE]
     ELSE [raised |-> "",
           sources |-> fromIrb \o fromBase \o fromGuess,
           search |-> (base.url = EmptyUrl /\ org_name # "")]

\* lines 456-473: the sources gathered before any search, or the
\* exception that leaves the function there.
SourcesBeforeSearch(org_name, organization_website, irb_page_url) ==
  LET irb == NormalizeUrl(irb_page_url)
      base == NormalizeUrl(organization_website)
      host == GuessedHost(org_name)
      fromIrb == IF irb.url # EmptyUrl THEN <<SourceDoc(irb.url, "web")>> ELSE <<>>
      fromBase ==
        IF base.url # EmptyUrl
          THEN <<SourceDoc(base.url, "web")>> \o
               [i \in 1..Len(LIKELY_IRB_PATHS) |->
                  SourceDoc(JoinPath(base.url, LIKELY_IRB_PATHS[i]).url, "guessed")]
        ELSE <<>>
      fromGuess ==
        IF base.url = EmptyUrl /\ org_name # "" /\ host # ""
          THEN <<SourceDoc(Url("https", host, <<>>), "guessed")>> \o
               [i \in 1..3 |-> SourceDoc(Url("https", host, LIKELY_IRB_PATHS[i]), "guessed")]
        ELSE <<>>
  IN IF irb.raised # "" THEN [raised |-> irb.raised, sources |-> <<>>, search |-> FALSE]
     ELSE IF base.raised # "" THEN [raised |-> base.raised, sources |-> <<>>, search |-> FALSE]
     ELSE IF base.url # EmptyUrl /\ UrlParseRaises(base.url)
       THEN [raised |-> "ValueError", sources |-> <<>>, search |-> FALSE]
     ELSE [raised |-> "",
           sources |-> fromIrb \o fromBase \o fromGuess,
           search |-> (irb.url = EmptyUrl /\ base.url = EmptyUrl /\ org_name # "")]

RECURSIVE DedupSourcesFrom(_, _, _)
DedupSourcesFrom(seq, i, out) ==
  IF i > Len(seq) THEN out
  ELSE IF seq[i].url = EmptyUrl \/ \E j \in DOMAIN out : out[j].url = seq[i].url
    THEN DedupSourcesFrom(seq, i + 1, out)
  ELSE DedupSourcesFrom(seq, i + 1, Append(out, seq[i]))

\* Mutant of lines 478-485: no URL is passed over for having been seen.
DedupAndCapKeepsDuplicates(sources) ==
  Prefix(SelectSeq(sources, LAMBDA s : s.url # EmptyUrl), MAX_SOURCE_FETCH)

\* lines 478-485
DedupAndCap(sources) == Prefix(DedupSourcesFrom(sources, 1, <<>>), MAX_SOURCE_FETCH)

InlineUrl == Url("inline", "raw_policy_text", <<>>)

\* lines 475-476
SearchSources(links) == [i \in 1..Len(links) |-> SourceDoc(links[i], "search")]

\* _build_candidate_urls, lines 453-485, given what _run_search_queries
\* returns when it is called.
BuildCandidateUrls(org_name, organization_website, irb_page_url, found) ==
  LET b == SourcesBeforeSearch(org_name, organization_website, irb_page_url) IN
  IF b.raised # "" THEN [raised |-> b.raised, sources |-> <<>>]
  ELSE [raised |-> "",
        sources |-> DedupAndCap(b.sources \o
                      (IF b.search THEN SearchSources(found) ELSE <<>>))]

\* lines 684-696
WithInlineText(candidates, raw_policy_text) ==
  IF raw_policy_text # ""
    THEN <<[SourceDoc(InlineUrl, "inline_text") EXCEPT
              !.status = "fetched", !.content_type = "text/plain",
              !.text = raw_policy_text]>> \o candidates
  ELSE candidates

SEARCH_QUERIES ==
  <<"institutional review board", "human subjects research", "IRB application">>

\* line 440
SearchUrl(i) == Url("https", "duckduckgo.com", <<"html", SEARCH_QUERIES[i]>>)

\* _extract_search_result_urls on a fetched results page.
SearchResultUrls(doc) ==
  IF doc = "page"
    THEN <<Url("https", "irb.example.edu", <<>>), Url("https", "example.edu", <<"consent">>)>>
  ELSE <<>>

(***************************************************************************)
(* import_irb_profile, one action per stretch of code between two calls    *)
(* of _request_url.                                                        *)
(***************************************************************************)
ImportRaise(exc) ==
  /\ ipc' = "raised"
  /\ iraised' = exc
  /\ requests' = requests + nreq
  /\ UNCHANGED <<inp, cands, results, fetched, idx, doclinks, attempts, result>>

\* The environment decides whether servers answer during the next call.
StartCall(u) ==
  \E lv \in (IF reachLeft > 0 THEN {TRUE, FALSE} ELSE {FALSE}) :
    /\ CallRequestUrl(u, lv)
    /\ reachLeft' = IF lv THEN reachLeft - 1 ELSE reachLeft

\* lines 678-683 up to the first search request, or, when no search is
\* made, up to the loop of line 699
ImportEnter ==
  /\ ipc = "enter"
  /\ fpc = "idle"
  /\ LET org == StrOrg(inp.org)
         b == SourcesBeforeSearch(org, inp.website, inp.irb)
     IN IF org = "" THEN ImportRaise("ValueError: organizationName is required.")
        ELSE IF b.raised # "" THEN ImportRaise(b.raised)
        ELSE IF b.search
          THEN /\ ipc' = "search"
               /\ cands' = b.sources
               /\ idx' = 1
               /\ UNCHANGED <<inp, requests, results, fetched, doclinks, attempts, result, iraised>>
        ELSE /\ ipc' = "fetch"
             /\ cands' = WithInlineText(DedupAndCap(b.sources), inp.text)
             /\ idx' = 1
             /\ UNCHANGED <<inp, requests, results, fetched, doclinks, attempts, result, iraised>>
  /\ UNCHANGED <<fvars, reachLeft, pvars, svars>>

\* lines 438-441
SearchCall ==
  /\ ipc = "search"
  /\ fpc = "idle"
  /\ StartCall(SearchUrl(idx))
  /\ UNCHANGED <<ipc, inp, requests, cands, results, fetched, idx, doclinks, attempts, result, iraised>>
  /\ UNCHANGED <<pvars, svars>>

RECURSIVE AppendNew(_, _, _)
\* lines 445-447
AppendNew(seq, links, i) ==
  IF i > Len(links) THEN seq
  ELSE IF \E j \in DOMAIN seq : seq[j] = links[i] THEN AppendNew(seq, links, i + 1)
  ELSE AppendNew(Append(seq, links[i]), links, i + 1)

\* lines 442-450 after one search request, then either the next query or
\* lines 475-485 and 684-696
SearchReturn ==
  /\ ipc = "search"
  /\ fpc = "ret"
  /\ LET skip == fret.payload = NoPayload \/ fret.status >= 400
         found == IF skip THEN results
                  ELSE AppendNew(results, SearchResultUrls(fret.payload.doc), 1)
         stop == (~skip /\ Len(found) >= 8) \/ idx = Len(SEARCH_QUERIES)
     IN IF stop
          THEN /\ ipc' = "fetch"
               /\ cands' = WithInlineText(DedupAndCap(cands \o SearchSources(found)), inp.text)
               /\ results' = found
               /\ idx' = 1
          ELSE /\ results' = found
               /\ idx' = idx + 1
               /\ UNCHANGED <<ipc, cands>>
  /\ FetchReset
  /\ UNCHANGED <<inp, fetched, doclinks, attempts, result, iraised, reachLeft, pvars, svars>>
  /\ requests' = requests + nreq

\* lines 699-702
FetchInline ==
  /\ ipc = "fetch"
  /\ fpc = "idle"
  /\ idx <= Len(cands)
  /\ cands[idx].source_type = "inline_text"
  /\ fetched' = Append(fetched, cands[idx])
  /\ idx' = idx + 1
  /\ UNCHANGED <<ipc, inp, requests, cands, results, doclinks, attempts, result, iraised, reachLeft>>
  /\ UNCHANGED <<fvars, pvars, svars>>

\* lines 703 and 556
FetchSourceCall ==
  /\ ipc = "fetch"
  /\ fpc = "idle"
  /\ idx <= Len(cands)
  /\ cands[idx].source_type # "inline_text"
  /\ StartCall(cands[idx].url)
  /\ UNCHANGED <<ipc, inp, requests, cands, results, fetched, idx, doclinks, attempts, result, iraised>>
  /\ UNCHANGED <<pvars, svars>>

\* Mutant of lines 699-703: the loop stays on the candidate it has fetched.
FetchSourceReturnStays ==
  /\ ipc = "fetch"
  /\ fpc = "ret"
  /\ \E pdf_ok \in PdfOutcomes(fret) :
       fetched' = Append(fetched, FetchSource(cands[idx], fret, pdf_ok))
  /\ idx' = idx
  /\ FetchReset
  /\ UNCHANGED <<ipc, inp, cands, results, doclinks, attempts, result, iraised, reachLeft, pvars, svars>>
  /\ requests' = requests + nreq

\* lines 557-593 and 703
FetchSourceReturn ==
  /\ ipc = "fetch"
  /\ fpc = "ret"
  /\ \E pdf_ok \in PdfOutcomes(fret) :
       fetched' = Append(fetched, FetchSource(cands[idx], fret, pdf_ok))
  /\ idx' = idx + 1
  /\ FetchReset
  /\ UNCHANGED <<ipc, inp, cands, results, doclinks, attempts, result, iraised, reachLeft, pvars, svars>>
  /\ requests' = requests + nreq

RECURSIVE DiscoveredFrom(_, _)
\* lines 706-710
DiscoveredFrom(sources, i) ==
  IF i > Len(sources) THEN <<>>
  ELSE (IF sources[i].status = "fetched" THEN ExtractDocLinks(sources[i].links) ELSE <<>>)
       \o DiscoveredFrom(sources, i + 1)

\* Mutant of lines 699-719: the links are collected, and the follow-up
\* stage entered, while candidates are still to be fetched.
CollectDocLinksEarly ==
  /\ ipc = "fetch"
  /\ fpc = "idle"
  /\ doclinks' = Dedup(DiscoveredFrom(fetched, 1))
  /\ attempts' = 0
  /\ idx' = 1
  /\ ipc' = "pdf"
  /\ UNCHANGED <<inp, requests, cands, results, fetched, result, iraised, reachLeft>>
  /\ UNCHANGED <<fvars, pvars, svars>>

\* lines 706-719
CollectDocLinks ==
  /\ ipc = "fetch"
  /\ fpc = "idle"
  /\ idx > Len(cands)
  /\ doclinks' = Dedup(DiscoveredFrom(fetched, 1))
  /\ attempts' = 0
  /\ idx' = 1
  /\ ipc' = "pdf"
  /\ UNCHANGED <<inp, requests, cands, results, fetched, result, iraised, reachLeft>>
  /\ UNCHANGED <<fvars, pvars, svars>>

\* lines 720-724: a link that is not a PDF is passed over
PdfSkip ==
  /\ ipc = "pdf"
  /\ fpc = "idle"
  /\ idx <= Len(doclinks)
  /\ attempts < MAX_PDF_SOURCES_TO_PARSE
  /\ ~IsPdfUrl(doclinks[idx])
  /\ idx' = idx + 1
  /\ UNCHANGED <<ipc, inp, requests, cands, results, fetched, doclinks, attempts, result, iraised, reachLeft>>
  /\ UNCHANGED <<fvars, pvars, svars>>

\* lines 720-725 and 556
PdfCall ==
  /\ ipc = "pdf"
  /\ fpc = "idle"
  /\ idx <= Len(doclinks)
  /\ attempts < MAX_PDF_SOURCES_TO_PARSE
  /\ IsPdfUrl(doclinks[idx])
  /\ StartCall(doclinks[idx])
  /\ UNCHANGED <<ipc, inp, requests, cands, results, fetched, idx, doclinks, attempts, result, iraised>>
  /\ UNCHANGED <<pvars, svars>>

\* lines 557-593 and 725-727
PdfReturn ==
  /\ ipc = "pdf"
  /\ fpc = "ret"
  /\ \E pdf_ok \in PdfOutcomes(fret) :
       fetched' = Append(fetched, FetchSource(SourceDoc(doclinks[idx], "web"), fret, pdf_ok))
  /\ attempts' = attempts + 1
  /\ idx' = idx + 1
  /\ FetchReset
  /\ UNCHANGED <<ipc, inp, cands, results, doclinks, result, iraised, reachLeft, pvars, svars>>
  /\ requests' = requests + nreq

\* An exception that left _request_url leaves _run_search_queries or
\* _fetch_source, and import_irb_profile, unhandled.
CallRaised ==
  /\ ipc \in {"search", "fetch", "pdf"}
  /\ fpc = "raised"
  /\ ImportRaise(fraised)
  /\ FetchReset
  /\ UNCHANGED <<reachLeft, pvars, svars>>

RECURSIVE AggregateHitsCountsSources(_, _)
\* Mutant of lines 733-737: each source adds one to a rule it has hits for.
AggregateHitsCountsSources(sources, i) ==
  IF i > Len(sources) THEN NoHits
  ELSE LET rest == AggregateHitsCountsSources(sources, i + 1)
           hits == RuleHits(sources[i].text)
       IN [r \in RuleSet |-> (IF hits[r] > 0 THEN 1 ELSE 0) + rest[r]]

RECURSIVE AggregateHits(_, _)
\* lines 729-737
AggregateHits(sources, i) ==
  IF i > Len(sources) THEN NoHits
  ELSE LET rest == AggregateHits(sources, i + 1)
           hits == RuleHits(sources[i].text)
       IN [r \in RuleSet |-> hits[r] + rest[r]]

CountStatus(sources, st) == Cardinality({i \in DOMAIN sources : sources[i].status = st})

\* lines 729-832
ImportReturn ==
  /\ ipc = "pdf"
  /\ fpc = "idle"
  /\ idx > Len(doclinks) \/ attempts >= MAX_PDF_SOURCES_TO_PARSE
  /\ LET hits == AggregateHits(fetched, 1)
         fired == {r \in RuleSet : hits[r] > 0}
         fetched_count == CountStatus(fetched, "fetched")
         failed_count == CountStatus(fetched, "failed")
     IN result' =
          [returned |-> TRUE,
           confidence |-> Confidence(fetched_count, failed_count, fired),
           warnings |-> Warnings(fetched_count, failed_count, fired, doclinks),
           sources |-> fetched,
           \* the hits of line 735 for each source
           sourceHits |-> [i \in DOMAIN fetched |-> RuleHits(fetched[i].text)],
           signalHits |-> hits,
           signals |-> fired,
           evidenceCount |-> [r \in fired |-> hits[r]],
           documentLinks |-> Prefix(doclinks, 18),
           candidateSourceCount |-> Len(cands),
           fetchedSourceCount |-> fetched_count,
           failedSourceCount |-> failed_count]
  /\ ipc' = "returned"
  /\ UNCHANGED <<inp, requests, cands, results, fetched, idx, doclinks, attempts, iraised, reachLeft>>
  /\ UNCHANGED <<fvars, pvars, svars>>

(***************************************************************************)
(* The import pipeline: one call of import_irb_profile on any of the       *)
(* arguments below, with at most MaxReachable of its calls of _request_url *)
(* finding servers that answer (every other call meets a network error).   *)
(***************************************************************************)
MaxReachable == 1

Websites ==
  {EmptyUrl, Url("https", "example.edu", <<>>), Url("", "[bad", <<>>),
   Url("https", "[bad", <<>>)}

IrbPages == {EmptyUrl, Url("https", "irb.example.edu", <<>>)}

Init ==
  /\ ServerIdle
  /\ FetchIdle
  /\ PureIdle
  /\ ipc = "enter"
  \* organization names: blank, one with no letter or digit, an ordinary
  \* one, and one of 70 letters
  /\ inp \in [org : {"  ", "!!!", "Example University", "seventy letters"},
              website : Websites, irb : IrbPages, text : {"", "policy"}]
  /\ cands = <<>>
  /\ results = <<>>
  /\ fetched = <<>>
  /\ idx = 0
  /\ doclinks = <<>>
  /\ attempts = 0
  /\ result = [returned |-> FALSE]
  /\ iraised = ""
  /\ reachLeft = MaxReachable
  /\ requests = 0

Next ==
  \/ ImportEnter
  \/ SearchCall
  \/ SearchReturn
  \/ FetchInline
  \/ FetchSourceCall
  \/ FetchSourceReturn
  \/ CollectDocLinks
  \/ PdfSkip
  \/ PdfCall
  \/ PdfReturn
  \/ CallRaised
  \/ ImportReturn
  \/ RequestUrlEnter
  \/ TooManyRedirects
  \/ Validate
  \/ SendRequest

Spec == Init /\ [][Next]_vars

(***************************************************************************)
(* A single call of _request_url on any of FetchUrls, servers answering.   *)
(***************************************************************************)
FetchUrls ==
  {EmptyUrl,
   Url("https", "example.edu", <<>>),
   Url("", "example.edu", <<"irb">>),
   Url("//", "example.edu", <<>>),
   Url("http", "10.0.0.5", <<>>),
   Url("https", "93.184.216.34", <<>>),
   Url("https", "localhost.", <<>>),
   Url("https", "[bad", <<>>),
   Url("", "[bad", <<>>),
   Url("https", "a..b.edu", <<>>),
   Url("ftp", "example.edu", <<>>),
   [Url("https", "example.edu", <<>>) EXCEPT !.creds = TRUE],
   [Url("https", "example.edu", <<>>) EXCEPT !.port = 8080],
   [Url("https", "example.edu", <<>>) EXCEPT !.port = 443]}

InitFetch ==
  /\ ServerIdle
  /\ fpc = "enter"
  /\ live = TRUE
  /\ target \in FetchUrls
  /\ redirects = 0
  /\ fret = NoRet
  /\ fraised = ""
  /\ accepted = EmptyUrl
  /\ wire = EmptyUrl
  /\ nreq = 0
  /\ connected = ""
  /\ reads = 0
  /\ oversize = FALSE
  /\ resp = NoResp
  /\ ImportIdle
  /\ PureIdle

NextFetch ==
  \/ RequestUrlEnter
  \/ TooManyRedirects
  \/ Validate
  \/ SendRequest

SpecFetch == InitFetch /\ [][NextFetch]_vars

(***************************************************************************)
(* A single call of _fetch_source on a web source for any of FetchUrls,    *)
(* servers answering.                                                      *)
(***************************************************************************)
InitSource ==
  /\ ServerIdle
  /\ fpc = "enter"
  /\ live = TRUE
  /\ target \in FetchUrls
  /\ redirects = 0
  /\ fret = NoRet
  /\ fraised = ""
  /\ accepted = EmptyUrl
  /\ wire = EmptyUrl
  /\ nreq = 0
  /\ connected = ""
  /\ reads = 0
  /\ oversize = FALSE
  /\ resp = NoResp
  /\ ipc = "fetch"
  /\ inp = [org |-> "", website |-> EmptyUrl, irb |-> EmptyUrl, text |-> ""]
  /\ cands = <<SourceDoc(target, "web")>>
  /\ results = <<>>
  /\ fetched = <<>>
  /\ idx = 1
  /\ doclinks = <<>>
  /\ attempts = 0
  /\ result = [returned |-> FALSE]
  /\ iraised = ""
  /\ reachLeft = 0
  /\ requests = 0
  /\ PureIdle

NextSource ==
  \/ RequestUrlEnter
  \/ TooManyRedirects
  \/ Validate
  \/ SendRequest
  \/ FetchSourceReturn
  \/ CallRaised

SpecSource == InitSource /\ [][NextSource]_vars

(***************************************************************************)
(* _validate_fetch_url applied on its own to any of ValidateUrls, with     *)
(* any answer of getaddrinfo.                                              *)
(***************************************************************************)
ValidateHosts ==
  IpTexts \cup {"", "example.edu", "example.edu.", "localhost.", "a..b.edu", "[bad"}

ValidateUrls ==
  {[scheme |-> sc, creds |-> FALSE, host |-> h, port |-> pt, path |-> <<>>] :
     sc \in {"https", "http", "ftp"},
     h \in ValidateHosts,
     pt \in {NoPort, 0, 443, 8080, InvalidPort}}
  \cup {[Url("https", "example.edu", <<>>) EXCEPT !.creds = TRUE]}

InitValidate ==
  /\ ServerIdle
  /\ FetchIdle
  /\ ImportIdle
  /\ pin \in {<<u, dns>> : u \in ValidateUrls, dns \in DnsAnswers}
  /\ pout = <<>>

ApplyValidateFetchUrl ==
  /\ pout = <<>>
  /\ pout' = <<ValidateFetchUrl(pin[1], pin[2])>>
  /\ UNCHANGED <<pin, fvars, ivars, svars>>

SpecValidate == InitValidate /\ [][ApplyValidateFetchUrl]_vars

(***************************************************************************)
(* The confidence of lines 775-787 applied on its own to any counts up to  *)
(* MaxCount and any set of rules with hits.                                *)
(***************************************************************************)
MaxCount == 3

InitConfidence ==
  /\ ServerIdle
  /\ FetchIdle
  /\ ImportIdle
  /\ pin \in {<<f, x, fired>> : f \in 0..MaxCount, x \in 0..MaxCount, fired \in SUBSET RuleSet}
  /\ pout = <<>>

ApplyConfidence ==
  /\ pout = <<>>
  /\ pout' = <<Confidence(pin[1], pin[2], pin[3])>>
  /\ UNCHANGED <<pin, fvars, ivars, svars>>

SpecConfidence == InitConfidence /\ [][ApplyConfidence]_vars

(***************************************************************************)
(* The server handling MaxRequests POST /api/import-profile requests that  *)
(* carry no profileId, each in its own thread of ThreadingHTTPServer.      *)
(***************************************************************************)
\* the slug of make_imported_profile_id, line 207
ProfileSlug(name) ==
  CASE name = "Example University" -> "example-university"
    [] name = "example university!" -> "example-university"
    [] name = "State College" -> "state-college"
    [] OTHER -> "organization"

\* n = 1 is "imported_<slug>_v1", n >= 2 is "imported_<slug>_v1_<n>"
ProfileId(slug, n) == [slug |-> slug, n |-> n]

\* lines 206-214: the first id of the series that is not in the registry
MakeImportedProfileId(name) ==
  LET slug == ProfileSlug(name)
      free == {n \in 1..(Cardinality(IRB_PROFILES) + 1) :
                 ProfileId(slug, n) \notin IRB_PROFILES}
  IN ProfileId(slug, CHOOSE n \in free : \A m \in free : n <= m)

\* The limiter as configured (the environment may set 1..3600 seconds and
\* 1..10000 requests).
RATE_LIMIT_WINDOW_SECONDS == 2
RATE_LIMIT_MAX_REQUESTS == 2

\* The last value time.monotonic() takes.
MaxClock == 3

\* time passes
Tick ==
  /\ clock < MaxClock
  /\ \E r \in Requests : hpc[r] \in {"start", "rate", "lock"}
  /\ clock' = clock + 1
  /\ UNCHANGED <<IRB_PROFILES, hpc, horg, hid, stored, hseen, passed, apikey>>
  /\ UNCHANGED <<events, tnow, retry, accepts>>
  /\ UNCHANGED <<fvars, ivars, pvars>>

\* The check of line 1089 fails: an Origin that is neither in
\* CORS_ALLOW_ORIGINS (unset) nor an origin of this server's Host.
OriginRejected(origin) ==
  origin # "" /\ ~(FALSE \/ origin \in {"http://localhost:8000", "https://localhost:8000"})

\* server.py lines 1247-1248 and 1085-1095
RejectDisallowedCrossOrigin(r) ==
  /\ hpc[r] = "start"
  /\ \E origin \in {"", "http://localhost:8000", "https://evil.example"} :
       /\ hseen' = [hseen EXCEPT ![r].origin = origin]
       /\ IF OriginRejected(origin)
            THEN hpc' = [hpc EXCEPT ![r] = "403"] /\ UNCHANGED passed
          ELSE /\ hpc' = [hpc EXCEPT ![r] = "rate"]
               /\ passed' = [passed EXCEPT ![r] = Append(@, "cross_origin")]
  /\ UNCHANGED <<IRB_PROFILES, horg, hid, stored, apikey>>
  /\ UNCHANGED <<events, clock, tnow, retry, accepts>>
  /\ UNCHANGED <<fvars, ivars, pvars>>

\* server.py lines 1249 and 1184-1189, then line 81: check reads the clock
\* before it takes the lock
ReadNow(r) ==
  /\ hpc[r] = "rate"
  /\ tnow' = [tnow EXCEPT ![r] = clock]
  /\ hpc' = [hpc EXCEPT ![r] = "lock"]
  /\ UNCHANGED <<IRB_PROFILES, horg, hid, stored, hseen, passed, apikey>>
  /\ UNCHANGED <<events, clock, retry, accepts>>
  /\ UNCHANGED <<fvars, ivars, pvars>>

\* lines 84-85: entries older than the window are dropped from the left
RECURSIVE PruneBucket(_, _)
PruneBucket(bucket, now) ==
  IF bucket # <<>> /\ (now - bucket[1]) > RATE_LIMIT_WINDOW_SECONDS
    THEN PruneBucket(Tail(bucket), now)
  ELSE bucket

\* server.py lines 82-91 under the lock, and lines 1190-1197
RateLimiterCheck(r) ==
  /\ hpc[r] = "lock"
  /\ LET bucket == PruneBucket(events, tnow[r]) IN
       IF Len(bucket) >= RATE_LIMIT_MAX_REQUESTS
         THEN /\ events' = bucket
              /\ retry' = [retry EXCEPT ![r] =
                             Max(1, RATE_LIMIT_WINDOW_SECONDS - (tnow[r] - bucket[1]))]
              /\ hpc' = [hpc EXCEPT ![r] = "429"]
              /\ UNCHANGED <<accepts, passed>>
       ELSE /\ events' = Append(bucket, tnow[r])
            /\ accepts' = Append(accepts, tnow[r])
            /\ hpc' = [hpc EXCEPT ![r] = "auth"]
            /\ passed' = [passed EXCEPT ![r] = Append(@, "rate_limit")]
            /\ UNCHANGED retry
  \* now is a local of check
  /\ tnow' = [tnow EXCEPT ![r] = 0]
  /\ UNCHANGED <<IRB_PROFILES, horg, hid, stored, hseen, apikey, clock>>
  /\ UNCHANGED <<fvars, ivars, pvars>>

\* Mutant of _reject_unauthorized: every key is let through.
KeyRejectedNever(configured_key, presented) == FALSE

\* lines 1160-1165: a key is configured and the one presented differs
KeyRejected(configured_key, presented) ==
  configured_key # "" /\ presented # configured_key

\* server.py lines 1251-1252 and 1154-1171
RejectUnauthorized(r) ==
  /\ hpc[r] = "auth"
  /\ \E presented \in {"", "secret"} :
       /\ hseen' = [hseen EXCEPT ![r].key = presented]
       /\ IF KeyRejected(apikey, presented)
            THEN hpc' = [hpc EXCEPT ![r] = "401"] /\ UNCHANGED passed
          ELSE /\ hpc' = [hpc EXCEPT ![r] = "json"]
               /\ passed' = [passed EXCEPT ![r] = Append(@, "api_key")]
  /\ UNCHANGED <<IRB_PROFILES, horg, hid, stored, apikey>>
  /\ UNCHANGED <<events, clock, tnow, retry, accepts>>
  /\ UNCHANGED <<fvars, ivars, pvars>>

\* server.py lines 1253-1260 and 1097-1115: the body is a JSON object, is
\* not JSON (400) or is announced larger than MAX_JSON_BODY_BYTES (413)
ReadJson(r) ==
  /\ hpc[r] = "json"
  /\ \E next \in {"route", "400", "413"} : hpc' = [hpc EXCEPT ![r] = next]
  /\ UNCHANGED <<IRB_PROFILES, horg, hid, stored, hseen, passed, apikey>>
  /\ UNCHANGED <<events, clock, tnow, retry, accepts>>
  /\ UNCHANGED <<fvars, ivars, pvars>>

\* server.py lines 1298-1314
ChooseProfileId(r) ==
  /\ hpc[r] = "route"
  /\ hid' = [hid EXCEPT ![r] = MakeImportedProfileId(horg[r])]
  /\ hpc' = [hpc EXCEPT ![r] = "import"]
  /\ UNCHANGED <<IRB_PROFILES, horg, stored, hseen, passed, apikey>>
  /\ UNCHANGED <<events, clock, tnow, retry, accepts>>
  /\ UNCHANGED <<fvars, ivars, pvars>>

\* server.py lines 1316-1324: import_irb_profile returns a result
ImportReturned(r) ==
  /\ hpc[r] = "import"
  /\ hpc' = [hpc EXCEPT ![r] = "upsert"]
  /\ UNCHANGED <<IRB_PROFILES, horg, hid, stored, hseen, passed, apikey>>
  /\ UNCHANGED <<events, clock, tnow, retry, accepts>>
  /\ UNCHANGED <<fvars, ivars, pvars>>

\* server.py lines 1317 and 1363-1366: import_irb_profile raises, the
\* handler answers with an error and stores nothing
ImportFailed(r) ==
  /\ hpc[r] = "import"
  /\ hpc' = [hpc EXCEPT ![r] = "error"]
  /\ UNCHANGED <<IRB_PROFILES, horg, hid, stored, hseen, passed, apikey>>
  /\ UNCHANGED <<events, clock, tnow, retry, accepts>>
  /\ UNCHANGED <<fvars, ivars, pvars>>

\* server.py line 1325 and irb_profiles.py lines 217-228: the draft is
\* merged into whatever the registry holds under its id
UpsertProfile(r) ==
  /\ hpc[r] = "upsert"
  /\ IRB_PROFILES' = IRB_PROFILES \cup {hid[r]}
  /\ stored' = stored \cup {[id |-> hid[r], by |-> r]}
  /\ hpc' = [hpc EXCEPT ![r] = "done"]
  /\ UNCHANGED <<horg, hid, hseen, passed, apikey>>
  /\ UNCHANGED <<events, clock, tnow, retry, accepts>>
  /\ UNCHANGED <<fvars, ivars, pvars>>

\* The registry holds no imported profile, or one imported before the
\* requests arrive (stored by 0, an earlier request).
InitServer ==
  /\ FetchIdle
  /\ ImportIdle
  /\ PureIdle
  /\ IRB_PROFILES \in {{}, {ProfileId("example-university", 1)}}
  /\ hpc = [r \in Requests |-> "start"]
  /\ horg \in [Requests -> {"Example University", "example university!", "State College"}]
  /\ hid = [r \in Requests |-> NoId]
  /\ stored = {[id |-> i, by |-> 0] : i \in IRB_PROFILES}
  /\ hseen = [r \in Requests |-> [origin |-> "unread", key |-> "unread"]]
  /\ passed = [r \in Requests |-> <<>>]
  /\ apikey \in {"", "secret"}
  \* the client has sent no request yet, or RATE_LIMIT_MAX_REQUESTS of
  \* them at time 0, all accepted
  /\ events \in {<<>>, [i \in 1..RATE_LIMIT_MAX_REQUESTS |-> 0]}
  /\ accepts = events
  /\ clock = 0
  /\ tnow = [r \in Requests |-> 0]
  /\ retry = [r \in Requests |-> 0]

NextServer ==
  \/ Tick
  \/ \E r \in Requests :
    \/ RejectDisallowedCrossOrigin(r)
    \/ ReadNow(r)
    \/ RateLimiterCheck(r)
    \/ RejectUnauthorized(r)
    \/ ReadJson(r)
    \/ ChooseProfileId(r)
    \/ ImportReturned(r)
    \/ ImportFailed(r)
    \/ UpsertProfile(r)

SpecServer == InitServer /\ [][NextServer]_vars

(***************************************************************************)
(* The follow-up stage of import_irb_profile, lines 705-832, entered after *)
(* the loop of line 699 fetched the candidates of a website and an IRB     *)
(* page URL: each of the first two candidates answered with a page or met  *)
(* a network error, as the others did.                                     *)
(***************************************************************************)
FollowUpInput(irb_page_url) ==
  [org |-> "Example University", website |-> Url("https", "example.edu", <<>>),
   irb |-> irb_page_url, text |-> ""]

\* _fetch_source on a candidate that answered with doc ("": network error)
FollowUpFetched(source, doc) ==
  IF doc = ""
    THEN FetchSource(source, Tuple(0, "", NoPayload, "Network error"), FALSE)
  ELSE FetchSource(source, Tuple(200, "text/html", [size |-> 10, doc |-> doc], ""), FALSE)

InitFollowUp ==
  /\ ServerIdle
  /\ FetchIdle
  /\ PureIdle
  /\ ipc = "fetch"
  \* the IRB page is a site of its own, or the PDF the home page links
  /\ \E irb_page_url \in {Url("https", "irb.example.edu", <<>>),
                          Url("https", "example.edu", <<"forms", "form.pdf">>)} :
       inp = FollowUpInput(irb_page_url)
  /\ cands = BuildCandidateUrls(StrOrg(inp.org), inp.website, inp.irb, <<>>).sources
  /\ results = <<>>
  /\ \E d1, d2 \in {"", "page", "index"} :
       fetched = [i \in DOMAIN cands |->
                    FollowUpFetched(cands[i], IF i = 1 THEN d1 ELSE IF i = 2 THEN d2 ELSE "")]
  /\ idx = Len(cands) + 1
  /\ doclinks = <<>>
  /\ attempts = 0
  /\ result = [returned |-> FALSE]
  /\ iraised = ""
  /\ reachLeft = MaxReachable
  \* every candidate call made one request, or each followed MAX_REDIRECTS
  \* redirects before its last request
  /\ requests \in {Len(cands), Len(cands) * (MAX_REDIRECTS + 1)}

NextFollowUp ==
  \/ CollectDocLinks
  \/ PdfSkip
  \/ PdfCall
  \/ RequestUrlEnter
  \/ TooManyRedirects
  \/ Validate
  \/ SendRequest
  \/ PdfReturn
  \/ CallRaised
  \/ ImportReturn

SpecFollowUp == InitFollowUp /\ [][NextFollowUp]_vars

(***************************************************************************)
(* The consent_template signal of lines 729-759 computed on its own from   *)
(* the texts of the sources, each text given as the sentences _sentences   *)
(* splits it into.                                                         *)
(***************************************************************************)
MaxSentences == 3
MaxSourceTexts == 2

ConsentSentences ==
  {"Consent is required.", "Obtain informed consent first.",
   "All informed consents are stored.", "Studies are reviewed."}

\* matches of the patterns of line 94 in a sentence: \bconsent\b,
\* \binformed consent\b and consent template
ConsentHits(sentence) ==
  CASE sentence = "Consent is required." -> 1
    [] sentence = "Obtain informed consent first." -> 2
    [] OTHER -> 0

RECURSIVE ConsentRuleHits(_, _)
\* _rule_hits(text)["consent_template"], lines 528-536
ConsentRuleHits(text, i) ==
  IF i > Len(text) THEN 0 ELSE ConsentHits(text[i]) + ConsentRuleHits(text, i + 1)

\* _rule_highlights(text, "consent_template", max_items), lines 539-552
RuleHighlights(text, max_items) ==
  Prefix(SelectSeq(text, LAMBDA s : ConsentHits(s) > 0), max_items)

RECURSIVE AddHighlights(_, _, _)
\* lines 739-743
AddHighlights(highlights, found, i) ==
  IF i > Len(found) THEN highlights
  ELSE LET next == IF \E j \in DOMAIN highlights : highlights[j] = found[i]
                     THEN highlights ELSE Append(highlights, found[i])
       IN IF Len(next) >= 3 THEN next ELSE AddHighlights(next, found, i + 1)

RECURSIVE ConsentSignal(_, _, _)
\* lines 733-743 and 746-758 for the rule consent_template
ConsentSignal(texts, i, acc) ==
  IF i > Len(texts)
    THEN [hits |-> acc.hits, signal |-> acc.hits > 0,
          highlights |-> Prefix(acc.highlights, 3)]
  ELSE LET count == IF texts[i] # <<>> THEN ConsentRuleHits(texts[i], 1) ELSE 0
           highlights ==
             IF count > 0 /\ Len(acc.highlights) < 3
               THEN AddHighlights(acc.highlights, RuleHighlights(texts[i], 2), 1)
             ELSE acc.highlights
       IN ConsentSignal(texts, i + 1, [hits |-> acc.hits + count, highlights |-> highlights])

InitHighlights ==
  /\ ServerIdle
  /\ FetchIdle
  /\ ImportIdle
  /\ pin \in UNION {[1..n -> UNION {[1..k -> ConsentSentences] : k \in 0..MaxSentences}] :
                      n \in 1..MaxSourceTexts}
  /\ pout = <<>>

ApplyConsentSignal ==
  /\ pout = <<>>
  /\ pout' = <<ConsentSignal(pin, 1, [hits |-> 0, highlights |-> <<>>])>>
  /\ UNCHANGED <<pin, fvars, ivars, svars>>

SpecHighlights == InitHighlights /\ [][ApplyConsentSignal]_vars

(***************************************************************************)
(* _build_imported_profile, lines 596-667, applied to the rules with hits, *)
(* to whether document links were found, and to a base profile of the      *)
(* registry: a built-in profile, an earlier imported draft, or none.  A    *)
(* profile is given by the ids of its two attachment lists.  The import    *)
(* is then run again with the draft as base.                               *)
(***************************************************************************)
Attachment(id) == [id |-> id]

\* Mutant of ensure_required and ensure_recommended: the entry is appended
\* whether or not the list has one with the id.
EnsureAttachmentAlwaysAppends(list, attachment_id) ==
  Append(list, Attachment(attachment_id))

\* ensure_required, lines 622-625, and ensure_recommended, lines 627-630
EnsureAttachment(list, attachment_id) ==
  IF \E i \in DOMAIN list : list[i].id = attachment_id THEN list
  ELSE Append(list, Attachment(attachment_id))

\* lines 632-661: the rule that adds each attachment id ("document_links"
\* stands for the condition of line 656)
RequiredByRule ==
  <<[rule |-> "consent_template", id |-> "institution_consent_template_check"],
    [rule |-> "training", id |-> "research_training_documentation"],
    [rule |-> "recruitment_materials", id |-> "recruitment_materials_copy"]>>

RecommendedByRule ==
  <<[rule |-> "hipaa_health_data", id |-> "hipaa_screening_note"],
    [rule |-> "document_links", id |-> "imported_form_link_review"]>>

RECURSIVE EnsureAll(_, _, _, _)
EnsureAll(list, by_rule, fired, i) ==
  IF i > Len(by_rule) THEN list
  ELSE EnsureAll(IF by_rule[i].rule \in fired
                   THEN EnsureAttachment(list, by_rule[i].id) ELSE list,
                 by_rule, fired, i + 1)

\* lines 604-667
BuildImportedProfile(fired, has_links, base) ==
  LET conds == fired \cup (IF has_links THEN {"document_links"} ELSE {}) IN
  [requiredManualAttachments |->
     EnsureAll(base.requiredManualAttachments, RequiredByRule, conds, 1),
   recommendedManualAttachments |->
     EnsureAll(base.recommendedManualAttachments, RecommendedByRule, conds, 1)]

\* Mutant of lines 604 and 682: the dict that is written is the caller's.
WorkingProfileIsBase(base_ref) == base_ref

\* lines 604 and 682: deepcopy gives a dict of its own, named here "profile"
WorkingProfile(base_ref) == "profile"

\* The two dicts after import_irb_profile has run on the caller's dict
\* "base": lines 682 and 604 copy it, lines 605-665 write the copy.
ProfilesAfterImport(fired, has_links, base) ==
  LET written == WorkingProfile("base")
      before == [ref \in {"base", "profile"} |-> base]
  IN [before EXCEPT ![written] = BuildImportedProfile(fired, has_links, before[written])]

\* Sequences without repetition over the ids of a set.
DistinctSeqs(ids) ==
  {s \in UNION {[1..n -> ids] : n \in 0..Cardinality(ids)} :
     \A i, j \in DOMAIN s : i # j => s[i] # s[j]}

\* {} (no base), the built-in profile of src/irb_profiles.py, and drafts
\* imported earlier from it.
BaseProfiles ==
  {[requiredManualAttachments |-> <<>>, recommendedManualAttachments |-> <<>>]}
  \cup
  {[requiredManualAttachments |->
      <<Attachment("survey_instrument_copy"), Attachment("interview_guide")>> \o
      [i \in DOMAIN req |-> Attachment(req[i])],
    recommendedManualAttachments |->
      <<Attachment("advisor_review_notes")>> \o [i \in DOMAIN rec |-> Attachment(rec[i])]] :
     req \in DistinctSeqs({RequiredByRule[i].id : i \in DOMAIN RequiredByRule}),
     rec \in DistinctSeqs({RecommendedByRule[i].id : i \in DOMAIN RecommendedByRule})}

InitProfile ==
  /\ ServerIdle
  /\ FetchIdle
  /\ ImportIdle
  /\ pin \in {<<fired, has_links, base>> :
                fired \in SUBSET {"consent_template", "training", "recruitment_materials",
                                  "hipaa_health_data", "review_categories"},
                has_links \in BOOLEAN, base \in BaseProfiles}
  /\ pout = <<>>

\* pin[3] is the caller's dict, pout[1] the draft returned.
ApplyBuildImportedProfile ==
  /\ pout = <<>>
  /\ LET after == ProfilesAfterImport(pin[1], pin[2], pin[3]) IN
       /\ pin' = [pin EXCEPT ![3] = after["base"]]
       /\ pout' = <<after[WorkingProfile("base")]>>
  /\ UNCHANGED <<fvars, ivars, svars>>

\* the same import run with the draft it produced as base_profile
ImportAgainWithDraft ==
  /\ Len(pout) = 1
  /\ LET after == ProfilesAfterImport(pin[1], pin[2], pout[1]) IN
       pout' = <<after["base"], after[WorkingProfile("base")]>>
  /\ UNCHANGED <<pin, fvars, ivars, svars>>

NextProfile ==
  \/ ApplyBuildImportedProfile
  \/ ImportAgainWithDraft

SpecProfile == InitProfile /\ [][NextProfile]_vars

(***************************************************************************)
(* _build_candidate_urls applied on its own to any of the arguments below  *)
(* and any list of links the search returns.                               *)
(***************************************************************************)
\* The arguments: an organization name, already through _str, a website, an
\* IRB page URL, and a list _run_search_queries can return (links pairwise
\* distinct, at most seven from all queries but the last one that added any).
CandidateArguments ==
  {<<o, w, p, f>> :
     o \in {"", "!!!", "Example University", "seventy letters"},
     w \in Websites \cup {Url("", "example.edu", <<>>),
                          Url("https", "example.edu", <<"irb">>)},
     p \in IrbPages \cup {Url("https", "example.edu", <<>>),
                          Url("https", "example.edu", <<"irb">>),
                          Url("//", "example.edu", <<"hrpp">>), Url("https", "[bad", <<>>)},
     f \in {<<>>,
            SearchResultUrls("page"),
            <<Url("https", "exampleuniversity.edu", <<"irb">>),
              Url("https", "irb.example.edu", <<>>),
              Url("https", "exampleuniversity.edu", <<>>)>>,
            [i \in 1..8 |-> Url("https", "example.edu", <<"result", ToString(i)>>)]}}

InitCandidates ==
  /\ ServerIdle
  /\ FetchIdle
  /\ ImportIdle
  /\ pin \in CandidateArguments
  /\ pout = <<>>

ApplyBuildCandidateUrls ==
  /\ pout = <<>>
  /\ pout' = <<BuildCandidateUrls(pin[1], pin[2], pin[3], pin[4])>>
  /\ UNCHANGED <<pin, fvars, ivars, svars>>

SpecCandidates == InitCandidates /\ [][ApplyBuildCandidateUrls]_vars

(***************************************************************************)
(* Claims about _request_url (checked under SpecFetch).                    *)
(***************************************************************************)
Blocked == "Blocked URL for security reasons"

\* C1: a request is handed to the opener only for the target the validator
\* accepted in the same loop iteration, on the first hop and on every
\* redirect hop; a fetch the validator ends returns the blocked-URL error
\* with no request made in that iteration, so every request of the call
\* belongs to an earlier, validated hop.
C1_RequestOnlyToValidatedTarget ==
  /\ fpc = "send" => accepted = target
  /\ wire # EmptyUrl => wire = accepted
  /\ (fpc = "ret" /\ fret.error = Blocked) =>
       /\ wire = EmptyUrl
       /\ accepted = EmptyUrl
       /\ nreq = redirects

\* C1 witness: the validator ends a fetch at a redirect hop, after the
\* earlier hops were requested.
C1_Witness ==
  /\ fpc = "ret"
  /\ fret.error = Blocked
  /\ redirects >= 1
  /\ nreq = redirects

\* C2: the transport never connects to an address of a blocked class.
C2_NoConnectionToBlockedIp == connected # "" => ~IsBlockedIp(connected)

\* C4: one call hands at most MAX_REDIRECTS + 1 requests to the opener; it
\* ends with the too-many-redirects error only after MAX_REDIRECTS + 1
\* redirects were received, each from its own request, and a call that has
\* received at most MAX_REDIRECTS redirects never ends with that error.
C4_RedirectCap ==
  /\ nreq <= MAX_REDIRECTS + 1
  /\ redirects <= MAX_REDIRECTS + 1
  /\ (fpc = "ret" /\ fret.error = "Too many redirects") =>
       /\ redirects = MAX_REDIRECTS + 1
       /\ nreq = MAX_REDIRECTS + 1
  /\ (fpc = "loop" /\ redirects <= MAX_REDIRECTS) => ENABLED Validate

\* C4 witness: a chain longer than the cap has ended the call.
C4_Witness ==
  /\ fpc = "ret"
  /\ fret.error = "Too many redirects"
  /\ nreq = MAX_REDIRECTS + 1

\* C6 as stated: a call that received a response declaring a
\* Content-Length above the cap returns an error, and reads no body.
C6_OversizeAlwaysAnError ==
  (fpc = "ret" /\ oversize) => (fret.error # "" /\ reads = 0)

RedirectWithLocation(r) ==
  r.kind = "http_error" /\ r.status \in {301, 302, 303, 307, 308} /\ r.loc # EmptyUrl

\* C6 amended: no body is read from a response that declares a
\* Content-Length above the cap, and the call returns an error at that
\* response unless it is a redirect with a Location header, which is
\* followed like any other redirect.
C6_OversizeRejectedBeforeRead ==
  resp.clen > MAX_SOURCE_RESPONSE_BYTES =>
    /\ reads = 0
    /\ ~RedirectWithLocation(resp) => (fpc = "ret" /\ fret.error # "")

\* C6 witness: a 2xx response declaring too large a body was rejected,
\* unread.
C6_Witness ==
  /\ resp.kind = "ok"
  /\ resp.clen > MAX_SOURCE_RESPONSE_BYTES
  /\ resp.body > 0
  /\ fpc = "ret"
  /\ fret.error = "Response too large"
  /\ reads = 0

\* C7: no exception leaves _request_url.
C7_NoExceptionEscapes == fpc # "raised"

(***************************************************************************)
(* Claims about _validate_fetch_url (checked under SpecValidate).          *)
(***************************************************************************)
BlockedClasses ==
  {"is_private", "is_loopback", "is_link_local", "is_multicast", "is_reserved",
   "is_unspecified"}

InBlockedClass(a) == IsIpText(a) /\ IpFlags(a) \cap BlockedClasses # {}

\* The host of u is an IP literal of a blocked class.
BlockedLiteralHost(u) == ~UrlParseRaises(u) /\ InBlockedClass(HostCanon(u.host))

\* getaddrinfo returns, for the host name of u, a list holding at least one
\* address of a blocked class.
BlockedAddressReturned(u, dns) ==
  /\ ~UrlParseRaises(u)
  /\ HostCanon(u.host) \notin {""} \cup IpTexts \cup IdnaErrorHosts
  /\ dns.ok
  /\ \E i \in DOMAIN dns.addrs : InBlockedClass(dns.addrs[i])

\* C3: the validator answers "blocked" for every URL whose host is an IP
\* literal of a blocked class or whose resolution returns at least one
\* address of a blocked class, whatever the other addresses, the scheme and
\* the port are.
C3_BlockedAddressIsRejected ==
  pout # <<>> =>
    ((BlockedLiteralHost(pin[1]) \/ BlockedAddressReturned(pin[1], pin[2])) =>
       (pout[1].raised = "" /\ ~pout[1].valid))

\* C3 witness: a valid scheme and port, a public address first in the
\* answer and a link-local one behind it, and the URL was rejected.
C3_Witness ==
  /\ pout # <<>>
  /\ pin[1] = [Url("https", "example.edu", <<>>) EXCEPT !.port = 443]
  /\ pin[2] = [ok |-> TRUE, addrs |-> <<"93.184.216.34", "169.254.169.254">>]
  /\ pout[1] = Verdict(FALSE, "Resolved to private/local IP.")

\* C23: _validate_fetch_url returns blocked for every URL that carries an
\* explicit port other than 80 or 443, whatever the port value, 0 included.
C23_ExplicitPortIsBlocked ==
  (/\ pout # <<>>
   /\ ~UrlParseRaises(pin[1])
   /\ pin[1].port \notin {NoPort, 80, 443})
  => (pout[1].raised = "" /\ ~pout[1].valid)

(***************************************************************************)
(* Claims about _fetch_source (checked under SpecSource).                  *)
(***************************************************************************)
NoLocation == "Redirect without Location header"

RedirectWithoutLocation(r) ==
  r.kind = "http_error" /\ r.status \in {301, 302, 303, 307, 308} /\ r.loc = EmptyUrl

C5_EndsTheCall ==
  /\ RedirectWithoutLocation(resp) =>
       /\ fpc = "ret"
       /\ fret.error = NoLocation
       /\ fret.status = resp.status
       /\ nreq = redirects + 1
  /\ \A i \in DOMAIN fetched :
       fetched[i].error = NoLocation =>
         (fetched[i].status = "failed" /\ fetched[i].text = "" /\ fetched[i].links = <<>>)

C5_FailsTheSource ==
  (fpc = "ret" /\ fret.error = NoLocation /\ ipc \in {"fetch", "pdf"}) =>
    /\ fpc' = "idle"
    /\ Len(fetched') = Len(fetched) + 1
    /\ Last(fetched').status = "failed"
    /\ Last(fetched').error = NoLocation
    /\ Last(fetched').http_status = fret.status

\* C5: a response with status 301, 302, 303, 307 or 308 and no Location
\* header ends the call of _request_url at once with the error "Redirect
\* without Location header" and no further request, and the source fetched
\* by that call is recorded with status "failed" and that error.
C5_RedirectWithoutLocationFails == []C5_EndsTheCall /\ [][C5_FailsTheSource]_vars

\* C5 witness: a source was failed by a 303 that carried no Location
\* header, received after a redirect had been followed.
C5_Witness ==
  /\ fpc = "ret"
  /\ RedirectWithoutLocation(resp)
  /\ resp.status = 303
  /\ redirects = 1
  /\ fret.error = NoLocation

\* The call of _fetch_source ends on a 2xx response whose body is longer
\* than the cap and whose Content-Length does not announce more than the cap.
C27_LongBodyReturned ==
  /\ ipc = "fetch" /\ fpc = "ret"
  /\ Len(fetched') = Len(fetched) + 1
  /\ resp.kind = "ok"
  /\ resp.body > MAX_SOURCE_RESPONSE_BYTES
  /\ resp.clen <= MAX_SOURCE_RESPONSE_BYTES

\* One resp.read(MAX_SOURCE_RESPONSE_BYTES + 1) at most is made in a call,
\* and the payload returned is no longer than the cap.
C27_ReadIsCapped ==
  /\ reads <= 1
  /\ fpc = "ret" => fret.payload.size <= MAX_SOURCE_RESPONSE_BYTES
  /\ \A r \in OkResponses :
       ReadResponsePayload(r).payload.size <= MAX_SOURCE_RESPONSE_BYTES

\* C27 as stated: whatever Content-Length the response declares (absent,
\* not a number, or smaller than the real body), a fetch reads at most
\* MAX_SOURCE_RESPONSE_BYTES + 1 bytes and returns no payload longer than
\* MAX_SOURCE_RESPONSE_BYTES, and a body longer than the cap makes the
\* source failed.
C27_LongBodyFailsTheSource ==
  []C27_ReadIsCapped /\
  [][C27_LongBodyReturned => fetched'[Len(fetched')].status = "failed"]_vars

\* C27 amended: the read and the payload are capped as stated; a body longer
\* than the cap makes the source failed when the Content-Length is absent
\* or not a number; when a numeric Content-Length within the cap is
\* declared, only that many bytes are delivered and the source is fetched
\* or, when none is delivered, failed as an empty response.
C27_LongBodyFailsUnlessDeclaredShort ==
  []C27_ReadIsCapped /\
  [][C27_LongBodyReturned =>
       LET source == fetched'[Len(fetched')] IN
         /\ resp.clen < 0 =>
              (source.status = "failed" /\ source.error = "Response exceeded max size")
         /\ resp.clen > 0 => (source.status = "fetched" /\ fret.payload.size = resp.clen)
         /\ resp.clen = 0 =>
              (source.status = "failed" /\ source.error = "Empty response.")]_vars

\* C27 witness: a body longer than the cap under a Content-Length that is
\* not a number was read once and rejected.
C27_Witness ==
  /\ ipc = "fetch" /\ fpc = "ret"
  /\ resp.kind = "ok"
  /\ resp.clen = BadLength
  /\ resp.body > MAX_SOURCE_RESPONSE_BYTES
  /\ reads = 1
  /\ fret.error = "Response exceeded max size"

(***************************************************************************)
(* Claims about import_irb_profile (checked under Spec).                   *)
(***************************************************************************)

\* C8: import_irb_profile raises exactly when the organization name is
\* empty after trimming, and returns a result for every other input.
C8_RaisesOnlyOnEmptyOrg ==
  /\ ipc = "raised" => StrOrg(inp.org) = ""
  /\ (StrOrg(inp.org) = "" /\ ipc # "enter") => ipc = "raised"

NoSourceFetchedWarning == "No source pages were successfully fetched."

\* An import given a website and no policy text has returned with every
\* source failed.
AllFetchesFailed ==
  /\ ipc = "returned"
  /\ inp.website # EmptyUrl
  /\ inp.text = ""
  /\ \A i \in DOMAIN result.sources : result.sources[i].status = "failed"

\* C9 as stated: with every fetch failed the result reports no fetched
\* source, a confidence of 0.08 and the no-source-fetched warning.
C9_AllFailedConfidenceIsFloor ==
  AllFetchesFailed =>
    /\ result.fetchedSourceCount = 0
    /\ result.confidence = 8
    /\ \E i \in DOMAIN result.warnings : result.warnings[i] = NoSourceFetchedWarning

\* C9 amended: with every fetch failed the result reports no fetched
\* source, a confidence of 0.09 (0.22 - 0.08 - 0.05, above the floor) and
\* the no-source-fetched warning.
C9_AllFailedConfidence ==
  AllFetchesFailed =>
    /\ result.fetchedSourceCount = 0
    /\ result.confidence = 9
    /\ \E i \in DOMAIN result.warnings : result.warnings[i] = NoSourceFetchedWarning

\* C9 witness: all MAX_SOURCE_FETCH candidates of a website were tried and
\* failed.
C9_Witness ==
  /\ AllFetchesFailed
  /\ result.failedSourceCount = MAX_SOURCE_FETCH
  /\ result.candidateSourceCount = MAX_SOURCE_FETCH

(***************************************************************************)
(* Claims about the confidence (checked under SpecConfidence).             *)
(***************************************************************************)
\* C10: the confidence lies in [0.08, 0.93] for every combination of
\* fetched count, failed count and rules with hits.
C10_ConfidenceInRange == pout # <<>> => (8 <= pout[1] /\ pout[1] <= 93)

\* C10 witness: sources fetched and every rule hit give the largest
\* confidence the formula produces.
C10_Witness ==
  /\ pout # <<>>
  /\ pin[1] > 0
  /\ pin[3] = RuleSet
  /\ pout[1] = 88


\* C11: with the fetched and failed counts fixed, the confidence of a set
\* of rules with hits is at most the confidence of every superset of it.
C11_ConfidenceMonotone ==
  pout # <<>> =>
    \A T \in SUBSET RuleSet :
      pin[3] \subseteq T => pout[1] <= Confidence(pin[1], pin[2], T)

\* C11 witness: the confidence of no rule at all was computed, and a single
\* rule with the smallest weight raises it.
C11_Witness ==
  /\ pout # <<>>
  /\ pin[3] = {}
  /\ pin[1] > 0
  /\ pout[1] < Confidence(pin[1], pin[2], {"hipaa_health_data"})


\* Every SourceDoc the import holds: the candidates and the sources
\* fetched so far (the sources of the result are the latter).
SourceDocs ==
  {cands[i] : i \in DOMAIN cands} \cup {fetched[i] : i \in DOMAIN fetched}

TextOnlyWhenFetched(s) == (s.text # "" \/ s.links # <<>>) => s.status = "fetched"

PdfExtractionError == "PDF text extraction unavailable"

C13_NoRequestToBlocked ==
  /\ (fpc = "ret" /\ fret.error = Blocked) => (wire = EmptyUrl /\ nreq = redirects)
  /\ wire # EmptyUrl => \E dns \in DnsAnswers : ValidateFetchUrl(wire, dns).valid

\* The sources of the result are the sources fetched, a source with the
\* blocked-URL error is failed, and failedSourceCount counts the failed.
C13_BlockedIsReported ==
  /\ \A i \in DOMAIN fetched : fetched[i].error = Blocked => fetched[i].status = "failed"
  /\ ipc = "returned" =>
       /\ result.sources = fetched
       /\ result.failedSourceCount =
            Cardinality({i \in DOMAIN fetched : fetched[i].status = "failed"})

\* The source of a call the validator ended is appended as failed with the
\* blocked-URL error, and no source recorded earlier changes.
C13_BlockedFailsTheSource ==
  /\ (fpc = "ret" /\ fret.error = Blocked /\ ipc \in {"fetch", "pdf"}) =>
       /\ Len(fetched') = Len(fetched) + 1
       /\ Last(fetched').status = "failed"
       /\ Last(fetched').error = Blocked
  /\ \A i \in DOMAIN fetched : i \in DOMAIN fetched' /\ fetched'[i] = fetched[i]

\* C13: a source whose fetch the validator ends, at the first hop or at a
\* redirect hop, had no request sent to the blocked target and appears in
\* the sources of the result with status failed and the blocked-URL error,
\* counted in failedSourceCount.
C13_BlockedSourceFailed ==
  /\ []C13_NoRequestToBlocked
  /\ []C13_BlockedIsReported
  /\ [][C13_BlockedFailsTheSource]_vars

\* C13 witness: an import returned with a source the validator blocked,
\* among the failed sources counted.
C13_Witness ==
  /\ ipc = "returned"
  /\ \E i \in DOMAIN result.sources :
       result.sources[i].error = Blocked /\ result.sources[i].status = "failed"
  /\ result.failedSourceCount >= 2


(***************************************************************************)
(* Claims about the server (checked under SpecServer).                     *)
(***************************************************************************)
\* C14: no two requests store their import under the same profile id, so
\* no import overwrites or merges into the profile of another request,
\* also when requests are handled concurrently.
C14_NoSharedProfileId ==
  \A a, b \in stored : a.id = b.id => a.by = b.by

\* The accepted calls whose timestamps lie in the span that starts at s and
\* lasts RATE_LIMIT_WINDOW_SECONDS (its end excluded).
C29_AcceptedIn(s) ==
  {i \in DOMAIN accepts : s <= accepts[i] /\ accepts[i] < s + RATE_LIMIT_WINDOW_SECONDS}

\* A call of check that rejects leaves in the bucket only timestamps that
\* were in it, in their order.
C29_RejectedNotRecorded ==
  \A r \in Requests :
    (hpc[r] = "lock" /\ hpc'[r] = "429") =>
      \E k \in 0..Len(events) : events' = SubSeq(events, k + 1, Len(events))

\* C29: for the key of a client, with threads calling BasicRateLimiter.check
\* concurrently, the accepted calls whose timestamps lie within any span of
\* window_seconds never number more than max_requests; a rejected call is
\* not recorded in the bucket and returns a retry-after of at least 1.
C29_AcceptedWithinLimit ==
  /\ [](/\ \A s \in 0..MaxClock :
             Cardinality(C29_AcceptedIn(s)) <= RATE_LIMIT_MAX_REQUESTS
        /\ \A r \in Requests : hpc[r] = "429" => retry[r] >= 1)
  /\ [][C29_RejectedNotRecorded]_vars

\* The three checks of do_POST, in the order the claim gives them.
C30_Checks == <<"cross_origin", "rate_limit", "api_key">>

\* Request r got as far as import_irb_profile: its profile id is chosen,
\* the import runs or has run, or the registry was written for it.
C30_ImporterInvoked(r) ==
  \/ hpc[r] \in {"import", "upsert", "done", "error"}
  \/ hid[r] # NoId
  \/ \E s \in stored : s.by = r

\* Request r passed the three checks in order: its Origin is absent or one
\* of this server, check accepted its call, and it presented the configured
\* key when one is configured.
C30_AllChecksPassed(r) ==
  /\ passed[r] = C30_Checks
  /\ hseen[r].origin \in {"", "http://localhost:8000"}
  /\ apikey # "" => hseen[r].key = apikey

\* C30: for a POST to /api/import-profile the importer is invoked, and the
\* registry written, only after the cross-origin check, the rate-limit
\* check and the API-key check have all passed, in that order; a request
\* rejected by any of them causes no import and no registry change.
C30_ImportOnlyAfterChecks ==
  /\ [](\A r \in Requests :
          /\ \E k \in 0..3 : passed[r] = SubSeq(C30_Checks, 1, k)
          /\ C30_ImporterInvoked(r) => C30_AllChecksPassed(r)
          /\ hpc[r] \in {"403", "429", "401"} => ~C30_ImporterInvoked(r))
  /\ [][IRB_PROFILES' # IRB_PROFILES \/ stored' # stored =>
         \E r \in Requests : hpc[r] = "upsert" /\ C30_AllChecksPassed(r)]_vars

\* C30 witness: with a key configured, one request presented it and its
\* import was stored, and another was answered 401 and stored nothing.
C30_Witness ==
  /\ apikey = "secret"
  /\ \E a, b \in Requests :
       /\ hpc[a] = "done" /\ hseen[a].key = "secret"
       /\ \E s \in stored : s.by = a
       /\ hpc[b] = "401" /\ hseen[b].key = ""
       /\ hid[b] = NoId

(***************************************************************************)
(* Claims about _build_candidate_urls (checked under SpecCandidates).      *)
(***************************************************************************)
\* The URLs each stage of _build_candidate_urls contributes, for the
\* arguments in pin.
C15_IrbUrl == NormalizeUrl(pin[3]).url
C15_Website == NormalizeUrl(pin[2]).url
C15_WebsitePaths ==
  {[C15_Website EXCEPT !.path = C15_Website.path \o LIKELY_IRB_PATHS[i]] :
     i \in 1..Len(LIKELY_IRB_PATHS)}
C15_GuessedHostUrls ==
  {Url("https", GuessedHost(pin[1]), <<>>)} \cup
  {Url("https", GuessedHost(pin[1]), LIKELY_IRB_PATHS[i]) : i \in 1..3}

\* The first stage in the priority order that yields the URL of a source.
C15_Stage(s) ==
  CASE s.url = C15_IrbUrl /\ s.source_type = "web" -> 1
    [] s.url = C15_Website /\ s.source_type = "web" -> 2
    [] s.url \in C15_WebsitePaths /\ s.source_type = "guessed" -> 3
    [] s.url \in C15_GuessedHostUrls /\ s.source_type = "guessed" -> 4
    [] s.source_type = "search" /\ (\E i \in DOMAIN pin[4] : pin[4][i] = s.url) -> 5
    [] OTHER -> 0

\* C15: when _build_candidate_urls returns, it returns unfetched SourceDocs
\* with pairwise distinct URLs, at most MAX_SOURCE_FETCH of them, in priority
\* order: the IRB page URL, the website, the website joined with the likely
\* IRB paths, the guessed-host URLs, the search results.
C15_CandidatesDistinctCappedOrdered ==
  (pout # <<>> /\ pout[1].raised = "") =>
    LET c == pout[1].sources IN
      /\ Len(c) <= MAX_SOURCE_FETCH
      /\ \A i \in DOMAIN c :
           /\ c[i] = SourceDoc(c[i].url, c[i].source_type)
           /\ c[i].url # EmptyUrl
           /\ C15_Stage(c[i]) \in 1..5
      /\ \A i, j \in DOMAIN c : i < j =>
           /\ c[i].url # c[j].url
           /\ C15_Stage(c[i]) <= C15_Stage(c[j])

\* A call whose IRB page URL is also the website joined with a likely path,
\* which returns MAX_SOURCE_FETCH sources.
C15_Witness ==
  /\ pout # <<>>
  /\ pout[1].raised = ""
  /\ pin[3] = Url("https", "example.edu", <<"irb">>)
  /\ pin[2] = Url("https", "example.edu", <<>>)
  /\ Len(pout[1].sources) = MAX_SOURCE_FETCH

\* Every candidate has been fetched: its source is in fetched_sources, at
\* its place, with a final status.
C17_CandidatesFetched ==
  \A i \in DOMAIN cands :
    /\ i \in DOMAIN fetched
    /\ fetched[i].url = cands[i].url
    /\ fetched[i].status \in {"fetched", "failed"}

\* While the follow-up stage runs, and after it, every candidate has been
\* fetched, and the sources beyond the candidates are the follow-up fetches
\* made so far.
C17_FollowUpAfterCandidates ==
  ipc \in {"pdf", "returned"} =>
    /\ C17_CandidatesFetched
    /\ Len(fetched) = Len(cands) + attempts

\* The step that aggregates is taken with no call of _request_url under
\* way, after the loops of lines 699 and 720 have ended, over sources that
\* all have a final status; no call starts after it.
C17_AggregationAfterEveryFetch ==
  /\ (result' # result) =>
       /\ fpc = "idle" /\ fpc' = "idle"
       /\ C17_CandidatesFetched
       /\ idx > Len(doclinks) \/ attempts >= MAX_PDF_SOURCES_TO_PARSE
       /\ result'.sources = fetched
       /\ \A i \in DOMAIN fetched : fetched[i].status \in {"fetched", "failed"}
  /\ ipc = "returned" => (fpc' = "idle" /\ fetched' = fetched)

\* C17: the stages of an import never overlap: no follow-up PDF fetch starts
\* before every candidate fetch has completed, and signals, confidence and
\* warnings are aggregated only after every fetch, follow-up PDF fetches
\* included, has completed.
C17_StagesDoNotOverlap ==
  []C17_FollowUpAfterCandidates /\ [][C17_AggregationAfterEveryFetch]_vars

\* An import with several candidates and a follow-up fetch has returned.
C17_Witness ==
  /\ ipc = "returned"
  /\ Len(cands) >= 2
  /\ attempts >= 1
  /\ result.returned

RECURSIVE C18_SumOver(_, _, _)
\* The sum of the hits for rule r that the first n sources report.
C18_SumOver(per_source, r, n) ==
  IF n = 0 THEN 0 ELSE per_source[n][r] + C18_SumOver(per_source, r, n - 1)

\* C18: for every rule the aggregated hit count of an import is the sum of
\* the rule's per-source hit counts over every source (pasted text,
\* candidates, follow-up PDFs); the rule is in signals exactly when the sum
\* is at least 1, and its evidenceCount is the sum.
C18_HitsAreSummedOverSources ==
  result.returned =>
    /\ DOMAIN result.sourceHits = DOMAIN fetched
    /\ \A i \in DOMAIN fetched : result.sourceHits[i] = RuleHits(fetched[i].text)
    /\ \A r \in RuleSet :
         LET sum == C18_SumOver(result.sourceHits, r, Len(fetched)) IN
           /\ result.signalHits[r] = sum
           /\ r \in result.signals <=> sum >= 1
           /\ r \in result.signals => result.evidenceCount[r] = sum

\* An import whose pasted text and whose fetched page both have hits for a
\* rule, one of them more than one.
C18_Witness ==
  /\ result.returned
  /\ \E i, j \in DOMAIN fetched :
       /\ i # j
       /\ result.sourceHits[i]["consent_template"] = 1
       /\ result.sourceHits[j]["consent_template"] = 2
  /\ result.evidenceCount["consent_template"] = 3

\* The warning is one of the warnings of the result.
C22_Warned(w) == \E i \in DOMAIN result.warnings : result.warnings[i] = w

\* C22: the warnings of a result follow from its counters: the no source
\* pages fetched warning is present iff the fetched count is 0, the failed
\* requests warning, with the count, iff the failed count is above 0, the
\* no signals warning iff no rule fired, and the closing warning about
\* institutional validation is in every result, as the last warning.
C22_WarningsFollowCounters ==
  result.returned =>
    /\ C22_Warned("No source pages were successfully fetched.")
         <=> result.fetchedSourceCount = 0
    /\ C22_Warned(ToString(result.failedSourceCount) \o " source requests failed")
         <=> result.failedSourceCount > 0
    /\ \A n \in 0..(Len(result.sources) + 1) :
         (n # result.failedSourceCount \/ n = 0) =>
           ~C22_Warned(ToString(n) \o " source requests failed")
    /\ C22_Warned("No strong requirement signals detected") <=> result.signals = {}
    /\ result.warnings # <<>>
    /\ Last(result.warnings) = "Imported profile is a best-effort draft"
    /\ \A i \in DOMAIN result.warnings :
         result.warnings[i] = "Imported profile is a best-effort draft"
           => i = Len(result.warnings)

\* A result with fetched sources, fewer failed ones, and signals: it has
\* the failed requests warning and neither of the other two.
C22_Witness ==
  /\ result.returned
  /\ result.failedSourceCount > 0
  /\ result.fetchedSourceCount > result.failedSourceCount
  /\ result.signals # {}
  /\ C22_Warned("1 source requests failed")

\* C25: web-search queries are issued only when neither an IRB page URL nor
\* a website was supplied: whenever either is supplied, the import sends no
\* request to the search engine.
C25_SearchOnlyWithoutUrls ==
  (\/ ipc = "search"
   \/ results # <<>>
   \/ target.host = "duckduckgo.com"
   \/ wire.host = "duckduckgo.com")
  => (inp.irb = EmptyUrl /\ inp.website = EmptyUrl)

\* An import given an IRB page URL and no website has fetched it and
\* returned.
C25_Witness ==
  /\ ipc = "returned"
  /\ inp.irb # EmptyUrl
  /\ inp.website = EmptyUrl
  /\ \E i \in DOMAIN fetched : fetched[i].url = inp.irb /\ fetched[i].status = "fetched"

\* Every source that has been through the fetcher has a final status; in
\* the candidate loop the sources fetched are the candidates before the
\* current one, each once; the result is assembled from sources none of
\* which is unfetched.
C26_FetchedOnce ==
  /\ \A i \in DOMAIN fetched : fetched[i].status \in {"fetched", "failed"}
  /\ ipc = "fetch" =>
       /\ Len(fetched) = idx - 1
       /\ \A i \in DOMAIN fetched : fetched[i].url = cands[i].url
  /\ ipc \in {"pdf", "returned"} => Len(fetched) = Len(cands) + attempts
  /\ result.returned =>
       /\ result.sources = fetched
       /\ \A i \in DOMAIN result.sources : result.sources[i].status # "unfetched"

\* A step adds at most one source and changes none that is already there.
C26_NeverChangedAgain ==
  /\ Len(fetched') <= Len(fetched) + 1
  /\ \A i \in DOMAIN fetched : i \in DOMAIN fetched' /\ fetched'[i] = fetched[i]

\* C26: each SourceDoc of an import is passed through the fetcher at most
\* once; once its status is fetched or failed it is never changed again, and
\* when the result is assembled no source has status unfetched.
C26_SourceFetchedAtMostOnce == []C26_FetchedOnce /\ [][C26_NeverChangedAgain]_vars

\* A result with a pasted text, a fetched source and failed ones.
C26_Witness ==
  /\ result.returned
  /\ Len(result.sources) >= 3
  /\ \E i, j \in DOMAIN fetched :
       /\ fetched[i].source_type = "web" /\ fetched[i].status = "fetched"
       /\ fetched[j].status = "failed"

(***************************************************************************)
(* Claims about the follow-up stage (checked under SpecFollowUp).          *)
(***************************************************************************)
\* The sources of follow-up fetches: those appended after the candidates.
C16_FollowUps == {i \in DOMAIN fetched : i > Len(cands)}

\* C16: at most MAX_PDF_SOURCES_TO_PARSE follow-up fetches are made in one
\* import, and each targets a .pdf URL of the deduplicated document-link
\* list capped at 18, the list reported as documentLinks.
C16_FollowUpsWithinDocumentLinks ==
  /\ attempts <= MAX_PDF_SOURCES_TO_PARSE
  /\ Cardinality(C16_FollowUps) <= MAX_PDF_SOURCES_TO_PARSE
  /\ \A i \in C16_FollowUps :
       /\ IsPdfUrl(fetched[i].url)
       /\ \E k \in DOMAIN Prefix(doclinks, 18) : doclinks[k] = fetched[i].url
  /\ (ipc = "pdf" /\ fpc # "idle") =>
       /\ IsPdfUrl(doclinks[idx])
       /\ idx <= 18

\* C24: one import issues at most MAX_SOURCE_FETCH x (1 + MAX_REDIRECTS) = 35
\* HTTP requests in total, counting search queries, candidate fetches and
\* follow-up PDF fetches.
C24_RequestsWithinSourceBudget ==
  requests + nreq <= MAX_SOURCE_FETCH * (1 + MAX_REDIRECTS)

\* C28: within one import no URL is fetched twice: the URLs of the entries
\* of the sources list are pairwise distinct, follow-up PDF sources
\* included, so a follow-up PDF link equal to the URL of a candidate
\* already attempted is not fetched again.
C28_SourceUrlsDistinct ==
  /\ \A i, j \in DOMAIN fetched : i # j => fetched[i].url # fetched[j].url
  /\ (ipc = "pdf" /\ fpc # "idle") =>
       \A i \in DOMAIN fetched : fetched[i].url # doclinks[idx]

(***************************************************************************)
(* Claims about the consent_template signal (checked under SpecHighlights).*)
(***************************************************************************)
\* "informed consent" in sentence
C19_HasInformedConsent(sentence) ==
  sentence \in {"Obtain informed consent first.", "All informed consents are stored."}

\* C19: when the text of a source contains the substring "informed consent",
\* the result has at least one hit for consent_template and the highlights
\* of that signal include a sentence containing the substring, whatever the
\* other sentences and sources are.
C19_InformedConsentIsHighlighted ==
  (/\ pout # <<>>
   /\ \E i \in DOMAIN pin : \E k \in DOMAIN pin[i] : C19_HasInformedConsent(pin[i][k]))
  => /\ pout[1].hits >= 1
     /\ pout[1].signal
     /\ \E h \in DOMAIN pout[1].highlights : C19_HasInformedConsent(pout[1].highlights[h])

(***************************************************************************)
(* Claims about _build_imported_profile (checked under SpecProfile).       *)
(***************************************************************************)
\* How many entries of a list carry the id.
C20_Count(list, id) == Cardinality({i \in DOMAIN list : list[i].id = id})

\* The attachment ids the claim names, with their rule and their list.
C20_RuleDriven ==
  {[rule |-> RequiredByRule[i].rule, id |-> RequiredByRule[i].id,
    list |-> "requiredManualAttachments"] : i \in DOMAIN RequiredByRule}
  \cup {[rule |-> "hipaa_health_data", id |-> "hipaa_screening_note",
         list |-> "recommendedManualAttachments"]}

\* C20: in the profile draft every rule-driven attachment id (consent
\* template check, training proof, recruitment materials copy in
\* requiredManualAttachments, HIPAA note in recommendedManualAttachments) is
\* present when its rule fired, and is not added again when the base profile
\* has an entry with that id; importing again with the draft as base does
\* not grow the lists.
C20_AttachmentsAddedOnce ==
  /\ Len(pout) >= 1 =>
       \A a \in C20_RuleDriven :
         LET before == C20_Count(pin[3][a.list], a.id)
             after == C20_Count(pout[1][a.list], a.id)
         IN /\ a.rule \in pin[1] => after >= 1
            /\ before >= 1 => after = before
            /\ after <= IF before = 0 THEN 1 ELSE before
  /\ Len(pout) = 2 =>
       /\ pout[2].requiredManualAttachments = pout[1].requiredManualAttachments
       /\ pout[2].recommendedManualAttachments = pout[1].recommendedManualAttachments

\* A draft imported twice, whose base had the consent template check and
\* not the training proof, both rules and the HIPAA rule having fired.
C20_Witness ==
  /\ Len(pout) = 2
  /\ {"consent_template", "training", "hipaa_health_data"} \subseteq pin[1]
  /\ C20_Count(pin[3].requiredManualAttachments, "institution_consent_template_check") = 1
  /\ C20_Count(pin[3].requiredManualAttachments, "research_training_documentation") = 0
  /\ C20_Count(pout[1].requiredManualAttachments, "research_training_documentation") = 1

\* The caller's dict is the same after a call as before it: the base of
\* the first import, and the draft that is the base of the second.
C21_CallLeavesBase ==
  /\ pin' = pin
  /\ (Len(pout) = 1 /\ Len(pout') = 2) => pout'[1] = pout[1]

\* C21: import_irb_profile leaves the caller-supplied base profile unchanged
\* (it works on a deep copy), so the registry profile the server passes as
\* base has the same content after the call as before it.
C21_BaseProfileUnchanged == [][C21_CallLeavesBase]_vars

\* An import that returned a draft whose lists differ from the base's.
C21_Witness ==
  /\ Len(pout) >= 1
  /\ pout[1].requiredManualAttachments # pin[3].requiredManualAttachments
  /\ pout[1].recommendedManualAttachments # pin[3].recommendedManualAttachments

====
